---- MODULE Spec2Model ----
(***************************************************************************)
(* A model of the task-utils library vendored in this repository:          *)
(*   - task definitions (TaskDef, task-defs.js),                           *)
(*   - task instances (Task, tasks.js) with their state machine,           *)
(*     master/slave replication, revival and freezing.                     *)
(* Task instances and definitions are heap objects; the heap is modelled   *)
(* as the sequences `tasks` and `defs`, an object reference is its index   *)
(* (0 is "no object").  A JavaScript exception is modelled by the `threw`  *)
(* field of an operation's result: it aborts the rest of the call chain    *)
(* and keeps every write made before it.                                   *)
(***************************************************************************)
EXTENDS Integers, Sequences, FiniteSets, TLC

VARIABLES
  tasks,   \* the heap of Task instances
  defs,    \* the heap of TaskDef instances
  last,    \* the last call made: its name, receiver, arguments and outcome,
           \* the heap before it, and the call made before it
  tasksByName  \* the registry of task-utils: a map from a key to a task, or undefined

vars == <<tasks, defs, last, tasksByName>>

----------------------------------------------------------------------------
(* Bounds of the model *)

MaxAttempts == 2      \* start/incrementAttempts are not offered beyond this
MaxTime == 2          \* date-times are 1..MaxTime
MaxCalls == 1         \* calls made on a prepared heap of task trees
MaxLeafCalls == 2     \* calls made on a prepared task without sub-tasks
MaxDefCalls == 2      \* calls made on a prepared heap of definitions
MaxAttemptCalls == 2  \* calls of any kind made on the heaps of three trees
MaxRegistryCalls == 3 \* calls made on a registry of tasks
MaxFreezeCalls == 2   \* calls that freeze, enslave or create, made on prepared heaps
MaxCycles == 4        \* retry cycles made on a task without sub-tasks
MaxDynamicCalls == 2  \* calls that create sub-tasks with settings, on prepared heaps
MaxResetCalls == 2    \* calls of reset made on a prepared tree
MaxRejectedCalls == 1 \* calls made on a heap that holds rejected tasks
MaxBuildCalls == 2    \* calls that build or revive trees, made on prepared heaps

Times == 1..MaxTime

----------------------------------------------------------------------------
(* Optional values: undefined is the empty sequence *)

Undefined == <<>>
Some(v) == <<v>>
IsDef(x) == x # <<>>
Val(x) == x[1]

\* the values a result or an error can take; "undefined" is JavaScript's undefined
NoValue == "undefined"
Results == {"R1"}
Errors == {"E1"}
Reasons == {"unrecoverable"}

----------------------------------------------------------------------------
(* Task states (task-states.js): the state is identified by its name *)

CompletedStates == {"Completed", "Succeeded"}
TimedOutStates == {"TimedOut"}
FailedStates == {"Failed", "CustomFailed"}
RejectedStates == {"Rejected", "Discarded", "Abandoned"}
StateNames == {"Unstarted", "Started"} \cup CompletedStates \cup TimedOutStates
              \cup FailedStates \cup RejectedStates

unstarted(s) == s = "Unstarted"
started(s) == s = "Started"
completed(s) == s \in CompletedStates
timedOut(s) == s \in TimedOutStates
failed(s) == s \in FailedStates
rejected(s) == s \in RejectedStates

\* a variant of incomplete that takes every state but the rejected ones
notRejected(s) == ~rejected(s)

\* the `incomplete` getter of a state
incomplete(s) == ~completed(s) /\ ~rejected(s)

finalised(s) == completed(s) \/ rejected(s)

\* the rank of a state's category in the total order of states
stateRank(s) ==
  CASE unstarted(s) -> 0
    [] started(s) -> 1
    [] failed(s) -> 2
    [] timedOut(s) -> 2
    [] completed(s) -> 3
    [] rejected(s) -> 4

\* TaskState.compareStates(a, b): negative, zero or positive
compareStates(a, b) == stateRank(a) - stateRank(b)

----------------------------------------------------------------------------
(* Results of operations *)

\* ts: the heap after the call; threw: an exception escaped; count: the number returned
Ok(ts) == [ts |-> ts, threw |-> FALSE, count |-> 0]
Ret(ts, n) == [ts |-> ts, threw |-> FALSE, count |-> n]
Throw(ts) == [ts |-> ts, threw |-> TRUE, count |-> 0]

\* a write of fields `f` (a record of new field values) to object t:
\* a frozen object rejects the write with a TypeError (strict mode)
SetFields(ts, t, f) ==
  [ts EXCEPT ![t] = [k \in DOMAIN ts[t] |-> IF k \in DOMAIN f THEN f[k] ELSE ts[t][k]]]

----------------------------------------------------------------------------
(* Timing helpers of tasks.js *)

calculateEnded(began, took) ==
  IF ~IsDef(began) \/ ~IsDef(took) THEN Undefined ELSE Some(Val(began) + Val(took))

calculateTook(began, ended) ==
  IF ~IsDef(began) \/ ~IsDef(ended) THEN Undefined ELSE Some(Val(ended) - Val(began))

\* the `ended` getter
ended(ts, t) ==
  IF IsDef(ts[t].ended) THEN ts[t].ended ELSE calculateEnded(ts[t].began, ts[t].took)

isMasterTask(ts, t) == Len(ts[t].slaveTasks) > 0
isRootTask(ts, t) == ts[t].parent = 0
isSuperTask(ts, t) == Len(ts[t].subTasks) > 0
isFrozen(ts, t) == ts[t].frozen

getSubTask(ts, t, name) ==
  IF name \in DOMAIN ts[t].subTasksByName THEN ts[t].subTasksByName[name] ELSE 0

RECURSIVE isFullyFinalised(_, _)
isFullyFinalised(ts, t) ==
  /\ finalised(ts[t].state)
  /\ \A i \in 1..Len(ts[t].subTasks) : isFullyFinalised(ts, ts[t].subTasks[i])

----------------------------------------------------------------------------
(* The calls on a task.  A call is a record naming the method and its      *)
(* arguments; arguments a method does not take keep their default.         *)

NoCall ==
  [kind |-> "none", time |-> 1, rec |-> FALSE, skipSlaves |-> FALSE,
   result |-> NoValue, error |-> NoValue, stateName |-> "Failed",
   reason |-> "unrecoverable", overrideTimedOut |-> FALSE,
   overrideCompleted |-> FALSE, overrideUnstarted |-> FALSE,
   reverseAttempt |-> FALSE, max |-> 0, name |-> "", execute |-> "undefined",
   skipAddToParent |-> FALSE, names |-> <<>>, other |-> 0, slaves |-> <<>>,
   settings |-> "undefined"]

\* a variant of Write for a heap whose frozen objects accept writes
WriteThrough(ts, t, f) == Ok(SetFields(ts, t, f))

\* a write to the fields of task t: a frozen task rejects it with a TypeError
Write(ts, t, f) == IF ts[t].frozen THEN Throw(ts) ELSE Ok(SetFields(ts, t, f))

RECURSIVE Call(_, _, _), ForEach(_, _, _)

NoCount(r) == [r EXCEPT !.count = 0]
SetCount(r, n) == [r EXCEPT !.count = n]
AddCount(r, n) == [r EXCEPT !.count = @ + n]

\* the rest of a forEach / reduce after the call on the first element returned r
ForRest(r, ids, op) ==
  IF r.threw THEN r ELSE AddCount(ForEach(r.ts, ids, op), r.count)

\* array.forEach / array.reduce over task references: applies the call to each
\* in order, sums the returned counts, stops at the first exception
ForEach(ts, ids, op) ==
  IF ids = <<>> THEN Ok(ts) ELSE ForRest(Call(ts, Head(ids), op), Tail(ids), op)

\* if (cond) this._subTasks.forEach(...), after the steps that gave r
SubTasksIf(cond, r, t, op) ==
  IF r.threw \/ ~cond THEN r ELSE ForEach(r.ts, r.ts[t].subTasks, op)

\* a variant of SlavesIf that leaves the slaves out
SlavesLeftOut(cond, r, t, op) == r

\* if (cond && this.isMasterTask()) this._slaveTasks.forEach(...), after the steps
\* that gave r
SlavesIf(cond, r, t, op) ==
  IF r.threw \/ ~cond \/ ~isMasterTask(r.ts, t) THEN r
  ELSE ForEach(r.ts, r.ts[t].slaveTasks, op)

\* the tail shared by the pre-order methods: sub-tasks if recursively, then slaves
Ripple(r1, t, op, recursively) ==
  NoCount(SlavesIf(TRUE, SubTasksIf(recursively, r1, t, op), t, op))

beganAt(ts, t, time, recursively, skipSlaves) ==
  IF ts[t].frozen THEN Ok(ts)
  ELSE
    LET op == [NoCall EXCEPT !.kind = "beganAt", !.time = time, !.rec = recursively,
                             !.skipSlaves = skipSlaves]
        newEnded == IF IsDef(ts[t].ended) /\ Val(ts[t].ended) < time
                    THEN Undefined ELSE ts[t].ended
        ts1 == IF incomplete(ts[t].state)
               THEN SetFields(ts, t, [began |-> Some(time), ended |-> newEnded,
                                      took |-> calculateTook(Some(time), newEnded)])
               ELSE ts
    IN NoCount(SlavesIf(~skipSlaves, SubTasksIf(recursively, Ok(ts1), t, op), t, op))

endedAt(ts, t, time, recursively, skipSlaves) ==
  IF ts[t].frozen THEN Ok(ts)
  ELSE
    LET op == [NoCall EXCEPT !.kind = "endedAt", !.time = time, !.rec = recursively,
                             !.skipSlaves = skipSlaves]
        ts1 == IF ~IsDef(ts[t].ended)
               THEN SetFields(ts, t, [ended |-> Some(time),
                                      took |-> calculateTook(ts[t].began, Some(time))])
               ELSE ts
    IN NoCount(SlavesIf(~skipSlaves, SubTasksIf(recursively, Ok(ts1), t, op), t, op))

\* a variant of reset that resets every root super-task that is not fully finalised
resetAnyRoot(ts, t) ==
  Ripple(IF incomplete(ts[t].state)
            \/ (isRootTask(ts, t) /\ isSuperTask(ts, t) /\ ~isFullyFinalised(ts, t))
         THEN Write(ts, t, [state |-> "Unstarted", initialAttempts |-> Undefined,
                            result |-> NoValue, error |-> NoValue,
                            outcome |-> NoValue])
         ELSE Ok(ts),
         t, [NoCall EXCEPT !.kind = "reset"], TRUE)

reset(ts, t) ==
  Ripple(IF incomplete(ts[t].state)
            \/ (completed(ts[t].state) /\ isRootTask(ts, t) /\ isSuperTask(ts, t)
                /\ ~isFullyFinalised(ts, t))
         THEN Write(ts, t, [state |-> "Unstarted", initialAttempts |-> Undefined,
                            result |-> NoValue, error |-> NoValue,
                            outcome |-> NoValue])
         ELSE Ok(ts),
         t, [NoCall EXCEPT !.kind = "reset"], TRUE)

\* this.beganAt(startTime, false, true) of start, after the writes that gave r0
startBegan(r0, t, time) ==
  IF r0.threw THEN r0 ELSE beganAt(r0.ts, t, time, FALSE, TRUE)

\* a variant of start that starts every incomplete task
startIncomplete(ts, t, time, recursively) ==
  Ripple(IF incomplete(ts[t].state)
         THEN startBegan(Write(ts, t, [state |-> "Started",
                                       initialAttempts |-> Some(ts[t].attempts),
                                       attempts |-> ts[t].attempts + 1,
                                       totalAttempts |-> ts[t].totalAttempts + 1]),
                         t, time)
         ELSE Ok(ts),
         t, [NoCall EXCEPT !.kind = "start", !.time = time, !.rec = recursively],
         recursively)

start(ts, t, time, recursively) ==
  Ripple(IF unstarted(ts[t].state)
         THEN startBegan(Write(ts, t, [state |-> "Started",
                                       initialAttempts |-> Some(ts[t].attempts),
                                       attempts |-> ts[t].attempts + 1,
                                       totalAttempts |-> ts[t].totalAttempts + 1]),
                         t, time)
         ELSE Ok(ts),
         t, [NoCall EXCEPT !.kind = "start", !.time = time, !.rec = recursively],
         recursively)

\* a variant of revertAttempts that leaves the attempts as they are
keepAttempts(ts, t, recursively) == Ok(ts)

revertAttempts(ts, t, recursively) ==
  Ripple(IF IsDef(ts[t].initialAttempts)
         THEN Write(ts, t, [attempts |-> Val(ts[t].initialAttempts)])
         ELSE Ok(ts),
         t, [NoCall EXCEPT !.kind = "revertAttempts", !.rec = recursively], recursively)

incrementAttempts(ts, t, recursively) ==
  Ripple(IF incomplete(ts[t].state)
         THEN Write(ts, t, [attempts |-> ts[t].attempts + 1,
                            totalAttempts |-> ts[t].totalAttempts + 1])
         ELSE Ok(ts),
         t, [NoCall EXCEPT !.kind = "incrementAttempts", !.rec = recursively],
         recursively)

\* a variant of decrementAttempts that takes the attempt off the total as well
decrementBoth(ts, t, recursively) ==
  Ripple(IF incomplete(ts[t].state)
         THEN Write(ts, t, [attempts |-> ts[t].attempts - 1,
                            totalAttempts |-> ts[t].totalAttempts - 1])
         ELSE Ok(ts),
         t, [NoCall EXCEPT !.kind = "decrementAttempts", !.rec = recursively],
         recursively)

decrementAttempts(ts, t, recursively) ==
  Ripple(IF incomplete(ts[t].state)
         THEN Write(ts, t, [attempts |-> ts[t].attempts - 1])
         ELSE Ok(ts),
         t, [NoCall EXCEPT !.kind = "decrementAttempts", !.rec = recursively],
         recursively)

\* a variant of completeWith that leaves the error as it is
completeKeepingError(ts, t, op, newState) ==
  Ripple(IF incomplete(ts[t].state)
            /\ (op.overrideTimedOut \/ ~timedOut(ts[t].state))
         THEN Write(ts, t, [state |-> newState, result |-> op.result])
         ELSE Ok(ts),
         t, op, op.rec)

\* complete(result, opts, recursively) and succeed(result, opts, recursively)
completeWith(ts, t, op, newState) ==
  Ripple(IF incomplete(ts[t].state)
            /\ (op.overrideTimedOut \/ ~timedOut(ts[t].state))
         THEN Write(ts, t, [state |-> newState, result |-> op.result,
                            error |-> NoValue])
         ELSE Ok(ts),
         t, op, op.rec)

\* a variant of complete that completes a timed out task without the option
completeTimedOut(ts, t, op) ==
  completeWith(ts, t, [op EXCEPT !.overrideTimedOut = TRUE], "Completed")

complete(ts, t, op) == completeWith(ts, t, op, "Completed")

succeed(ts, t, op) == completeWith(ts, t, op, "Succeeded")

\* the writes of timeout's own step, after the optional revertAttempts gave r0
timeoutOwn(r0, t, op) ==
  IF r0.threw THEN r0
  ELSE Write(r0.ts, t, [state |-> "TimedOut", result |-> NoValue, error |-> op.error])

\* a variant of timeout that times out an unstarted task without the option
timeoutUnstarted(ts, t, op) ==
  Ripple(IF /\ (op.overrideCompleted \/ ~completed(ts[t].state))
            /\ ~timedOut(ts[t].state) /\ ~rejected(ts[t].state)
            /\ ~failed(ts[t].state)
         THEN timeoutOwn(IF ~unstarted(ts[t].state) /\ op.reverseAttempt
                         THEN revertAttempts(ts, t, FALSE) ELSE Ok(ts),
                         t, op)
         ELSE Ok(ts),
         t, op, op.rec)

timeout(ts, t, op) ==
  Ripple(IF /\ (op.overrideCompleted \/ ~completed(ts[t].state))
            /\ (op.overrideUnstarted \/ ~unstarted(ts[t].state))
            /\ ~timedOut(ts[t].state) /\ ~rejected(ts[t].state)
            /\ ~failed(ts[t].state)
         THEN timeoutOwn(IF ~unstarted(ts[t].state) /\ op.reverseAttempt
                         THEN revertAttempts(ts, t, FALSE) ELSE Ok(ts),
                         t, op)
         ELSE Ok(ts),
         t, op, op.rec)

\* a variant of fail that looks for the missing error only after its steps
failThenCheck(ts, t, op) ==
  IF op.error = NoValue
  THEN Throw(Ripple(Write(ts, t, [state |-> "Failed", result |-> NoValue,
                                  error |-> op.error]), t, op, op.rec).ts)
  ELSE Ripple(Write(ts, t, [state |-> "Failed", result |-> NoValue,
                            error |-> op.error]), t, op, op.rec)

fail(ts, t, op) ==
  IF op.error = NoValue THEN Throw(ts)
  ELSE Ripple(IF ~timedOut(ts[t].state) /\ ~rejected(ts[t].state)
                 /\ ~failed(ts[t].state)
              THEN Write(ts, t, [state |-> "Failed", result |-> NoValue,
                                 error |-> op.error])
              ELSE Ok(ts),
              t, op, op.rec)

failAs(ts, t, op) ==
  IF op.error = NoValue THEN Throw(ts)
  ELSE Ripple(IF ~timedOut(ts[t].state) /\ ~rejected(ts[t].state)
                 /\ ~failed(ts[t].state)
              THEN Write(ts, t, [state |-> op.stateName, result |-> NoValue,
                                 error |-> op.error])
              ELSE Ok(ts),
              t, op, op.rec)

\* the slaves' step of reject, discard and abandon: its count is not used
rejectSlaves(r1, t, op) ==
  IF r1.threw \/ ~isMasterTask(r1.ts, t) THEN r1
  ELSE SetCount(ForEach(r1.ts, r1.ts[t].slaveTasks, op), r1.count)

\* the count returned after the write w of this task's own rejection
rejectCount(w, n) == IF w.threw THEN w ELSE Ret(w.ts, n + 1)

\* a variant of rejectOwn that does not look at the sub-tasks
rejectOwnAlone(r2, t, newState, newError, extraGuard) ==
  IF r2.threw THEN r2
  ELSE IF incomplete(r2.ts[t].state) /\ extraGuard
       THEN rejectCount(Write(r2.ts, t, [state |-> newState, result |-> NoValue,
                                         error |-> newError]),
                        r2.count)
       ELSE r2

\* this task's own step of reject, discard and abandon, after the sub-tasks
\* and slaves gave r2
rejectOwn(r2, t, newState, newError, extraGuard) ==
  IF r2.threw THEN r2
  ELSE IF /\ incomplete(r2.ts[t].state)
          /\ extraGuard
          /\ \A i \in 1..Len(r2.ts[t].subTasks) :
               isFullyFinalised(r2.ts, r2.ts[t].subTasks[i])
       THEN rejectCount(Write(r2.ts, t, [state |-> newState, result |-> NoValue,
                                         error |-> newError]),
                        r2.count)
       ELSE r2

\* a variant of rejectWith that takes this task's own step before its sub-tasks
rejectWithSelfFirst(ts, t, op, newState, newError, extraGuard) ==
  AddCount(rejectSlaves(SubTasksIf(op.rec,
                                   NoCount(rejectOwn(Ok(ts), t, newState, newError,
                                                     extraGuard)),
                                   t, op), t, op),
           rejectOwn(Ok(ts), t, newState, newError, extraGuard).count)

\* the body shared by reject, discard, abandon and discardIfOverAttempted:
\* sub-tasks first (if recursively), then the slaves, then this task
rejectWith(ts, t, op, newState, newError, extraGuard) ==
  rejectOwn(rejectSlaves(SubTasksIf(op.rec, Ok(ts), t, op), t, op),
            t, newState, newError, extraGuard)

reject(ts, t, op) == rejectWith(ts, t, op, "Rejected", op.error, TRUE)

discard(ts, t, op) == rejectWith(ts, t, op, "Discarded", op.error, TRUE)

abandon(ts, t, op) == rejectWith(ts, t, op, "Abandoned", op.error, TRUE)

\* a variant of discardIfOverAttempted that discards only beyond the maximum
discardIfAttemptsExceed(ts, t, op) ==
  rejectWith(ts, t, op, "Discarded", NoValue, ts[t].attempts > op.max)

discardIfOverAttempted(ts, t, op) ==
  rejectWith(ts, t, op, "Discarded", NoValue, ts[t].attempts >= op.max)

\* executed(outcome, donePromise)
executed(ts, t, outcome) == Write(ts, t, [outcome |-> outcome])

\* a variant of freeze that freezes this task alone
freezeAlone(ts, t) == SetFields(ts, t, [frozen |-> TRUE])

RECURSIVE freeze(_, _), FreezeAll(_, _)

FreezeAll(ts, ids) ==
  IF ids = <<>> THEN ts ELSE FreezeAll(freeze(ts, Head(ids)), Tail(ids))

\* if (this.isMasterTask()) this._slaveTasks.forEach(slaveTask => slaveTask.freeze())
freezeSlaves(ts1, t) ==
  IF isMasterTask(ts1, t) THEN FreezeAll(ts1, ts1[t].slaveTasks) ELSE ts1

freeze(ts, t) ==
  IF ts[t].frozen THEN ts
  ELSE SetFields(freezeSlaves(FreezeAll(ts, ts[t].subTasks), t), t, [frozen |-> TRUE])

Call(ts, t, op) ==
  CASE op.kind = "beganAt" -> beganAt(ts, t, op.time, op.rec, op.skipSlaves)
    [] op.kind = "endedAt" -> endedAt(ts, t, op.time, op.rec, op.skipSlaves)
    [] op.kind = "reset" -> reset(ts, t)
    [] op.kind = "start" -> start(ts, t, op.time, op.rec)
    [] op.kind = "revertAttempts" -> revertAttempts(ts, t, op.rec)
    [] op.kind = "incrementAttempts" -> incrementAttempts(ts, t, op.rec)
    [] op.kind = "decrementAttempts" -> decrementAttempts(ts, t, op.rec)
    [] op.kind = "complete" -> complete(ts, t, op)
    [] op.kind = "succeed" -> succeed(ts, t, op)
    [] op.kind = "timeout" -> timeout(ts, t, op)
    [] op.kind = "fail" -> fail(ts, t, op)
    [] op.kind = "failAs" -> failAs(ts, t, op)
    [] op.kind = "reject" -> reject(ts, t, op)
    [] op.kind = "discard" -> discard(ts, t, op)
    [] op.kind = "abandon" -> abandon(ts, t, op)
    [] op.kind = "discardIfOverAttempted" -> discardIfOverAttempted(ts, t, op)

----------------------------------------------------------------------------
(* Task definitions (task-defs.js) *)

\* the names offered to the definition calls, some padded with blanks, one blank
trim(n) ==
  CASE n = " a " -> "a"
    [] n = "b " -> "b"
    [] n = "  " -> ""
    [] OTHER -> n

isBlank(n) == trim(n) = ""

\* the `execute` arguments: no function, a function, a value that is no function
NoExecute == "undefined"
AFunction == "function"
NotAFunction == "invalid"

Range(seq) == {seq[i] : i \in 1..Len(seq)}

\* Arrays.isDistinct: no element occurs twice
isDistinct(seq) == Cardinality(Range(seq)) = Len(seq)

DefNames(ds, ids) == [i \in 1..Len(ids) |-> ds[ids[i]].name]

\* a variant of areSubTaskDefNamesDistinct that accepts any names
anyNamesDistinct(ds, parent, proposedNames) == TRUE

\* TaskDef.areSubTaskNamesDistinct(parent, proposedNames)
areSubTaskDefNamesDistinct(ds, parent, proposedNames) ==
  LET oldNames == IF parent # 0 THEN DefNames(ds, ds[parent].subTaskDefs) ELSE <<>>
  IN isDistinct(oldNames \o proposedNames)

\* TaskDef.getRootTaskDef: 0 stands for the error thrown on a parent cycle
RECURSIVE getRootTaskDefLoop(_, _, _)
getRootTaskDefLoop(ds, d, history) ==
  IF ds[d].parent = 0 THEN d
  ELSE IF d \in history THEN 0
  ELSE getRootTaskDefLoop(ds, ds[d].parent, history \cup {d})

getRootTaskDef(ds, d) == getRootTaskDefLoop(ds, d, {})

\* the definitions visited from d down through the sub-definitions, in order
RECURSIVE DefHierarchy(_, _), DefHierarchies(_, _)
DefHierarchy(ds, d) == <<d>> \o DefHierarchies(ds, ds[d].subTaskDefs)
DefHierarchies(ds, ids) ==
  IF ids = <<>> THEN <<>>
  ELSE DefHierarchy(ds, Head(ids)) \o DefHierarchies(ds, Tail(ids))

\* TaskDef.ensureAllTaskDefsDistinct: TRUE when it does not throw
ensureAllTaskDefsDistinct(ds, parent, proposed) ==
  LET parentRoot == IF parent # 0 THEN getRootTaskDef(ds, parent) ELSE 0
      proposedRoot == IF proposed # 0 THEN getRootTaskDef(ds, proposed) ELSE 0
  IN /\ parent # 0 => parentRoot # 0
     /\ proposed # 0 => proposedRoot # 0
     /\ isDistinct((IF parentRoot # 0 THEN DefHierarchy(ds, parentRoot) ELSE <<>>)
                   \o (IF proposedRoot # 0 THEN DefHierarchy(ds, proposedRoot) ELSE <<>>))

DefOk(ds, d) == [ds |-> ds, threw |-> FALSE, id |-> d, ids |-> <<d>>]
DefThrow(ds) == [ds |-> ds, threw |-> TRUE, id |-> 0, ids |-> <<>>]

\* new TaskDef(name, execute, parent, settings); settings is {skipAddToParent}
TaskDef(ds, name, execute, parent, skipAddToParent) ==
  LET taskName == trim(name)
      d == Len(ds) + 1
      fresh == [name |-> taskName, managed |-> (execute = NoExecute),
                parent |-> 0, subTaskDefs |-> <<>>, unusable |-> FALSE]
      ds1 == Append(ds, fresh)
      ds2 == [ds1 EXCEPT ![d].parent = parent]
      ds3 == IF parent # 0 /\ ~skipAddToParent
             THEN [ds2 EXCEPT ![parent].subTaskDefs = Append(@, d)]
             ELSE ds2
  IN IF isBlank(name) THEN DefThrow(ds)
     ELSE IF parent # 0 /\ execute = NotAFunction THEN DefThrow(ds)
     ELSE IF parent # 0 /\ ~skipAddToParent
             /\ ~areSubTaskDefNamesDistinct(ds, parent, <<taskName>>) THEN DefThrow(ds)
     ELSE IF parent = 0 /\ execute # AFunction THEN DefThrow(ds)
     ELSE IF parent # 0 /\ ~ensureAllTaskDefsDistinct(ds1, parent, d) THEN DefThrow(ds)
     ELSE DefOk(ds3, d)

defineTask(ds, taskName, execute) == TaskDef(ds, taskName, execute, 0, FALSE)

defineSubTask(ds, this, subTaskName, execute, skipAddToParent) ==
  IF isBlank(subTaskName) THEN DefThrow(ds)
  ELSE IF execute = NotAFunction THEN DefThrow(ds)
  ELSE IF ~skipAddToParent /\ ~areSubTaskDefNamesDistinct(ds, this, <<trim(subTaskName)>>)
       THEN DefThrow(ds)
  ELSE TaskDef(ds, trim(subTaskName), execute, this, skipAddToParent)

\* newNames.map(name => new TaskDef(name, undefined, this, settings))
RECURSIVE TaskDefs(_, _, _, _)

\* the array of new definitions with d in front
WithDef(r2, d) == IF r2.threw THEN r2 ELSE [r2 EXCEPT !.ids = <<d>> \o @]

\* the rest of the map after the first definition was made with outcome r
TaskDefsRest(r, names, this, skipAddToParent) ==
  IF r.threw THEN r ELSE WithDef(TaskDefs(r.ds, names, this, skipAddToParent), r.id)

TaskDefs(ds, names, this, skipAddToParent) ==
  IF names = <<>> THEN [ds |-> ds, threw |-> FALSE, id |-> 0, ids |-> <<>>]
  ELSE TaskDefsRest(TaskDef(ds, Head(names), NoExecute, this, skipAddToParent),
                    Tail(names), this, skipAddToParent)

\* a variant of defineSubTasks that makes the definitions without the checks of the
\* whole array first
defineEachSubTask(ds, this, subTaskNames, skipAddToParent) ==
  TaskDefs(ds, subTaskNames, this, skipAddToParent)

defineSubTasks(ds, this, subTaskNames, skipAddToParent) ==
  IF subTaskNames = <<>> THEN [ds |-> ds, threw |-> FALSE, id |-> 0, ids |-> <<>>]
  ELSE IF \E i \in 1..Len(subTaskNames) : isBlank(subTaskNames[i]) THEN DefThrow(ds)
  ELSE LET newNames == [i \in 1..Len(subTaskNames) |-> trim(subTaskNames[i])]
       IN IF ~areSubTaskDefNamesDistinct(ds, this, newNames) THEN DefThrow(ds)
          ELSE TaskDefs(ds, newNames, this, skipAddToParent)

\* the `unusable` setter
setUnusable(ds, d, unusable) == [ds EXCEPT ![d].unusable = unusable]

----------------------------------------------------------------------------
(* Task construction (tasks.js, the constructor) *)

TaskNames(ts, ids) == [i \in 1..Len(ids) |-> ts[ids[i]].name]

\* a variant of areSubTaskNamesDistinct that accepts every name
anySubTaskNames(ts, parent, proposedNames) == TRUE

\* Task.areSubTaskNamesDistinct(parent, proposedSubTaskNames)
areSubTaskNamesDistinct(ts, parent, proposedNames) ==
  LET oldNames == IF parent # 0 THEN TaskNames(ts, ts[parent].subTasks) ELSE <<>>
  IN isDistinct(oldNames \o proposedNames)

\* Task.getRootTask: 0 stands for the error thrown on a parent cycle
RECURSIVE getRootTaskLoop(_, _, _)
getRootTaskLoop(ts, t, history) ==
  IF ts[t].parent = 0 THEN t
  ELSE IF t \in history THEN 0
  ELSE getRootTaskLoop(ts, ts[t].parent, history \cup {t})

getRootTask(ts, t) == getRootTaskLoop(ts, t, {})

\* the tasks visited from t down through the sub-tasks, in order
RECURSIVE Hierarchy(_, _), Hierarchies(_, _)
Hierarchy(ts, t) == <<t>> \o Hierarchies(ts, ts[t].subTasks)
Hierarchies(ts, ids) ==
  IF ids = <<>> THEN <<>>
  ELSE Hierarchy(ts, Head(ids)) \o Hierarchies(ts, Tail(ids))

\* a variant of ensureAllTasksDistinct that refuses a task as its own parent only
onlySelfRefused(ts, parent, proposed) == parent # proposed

\* Task.ensureAllTasksDistinct: TRUE when it does not throw
ensureAllTasksDistinct(ts, parent, proposed) ==
  LET parentRoot == IF parent # 0 THEN getRootTask(ts, parent) ELSE 0
      proposedRoot == IF proposed # 0 THEN getRootTask(ts, proposed) ELSE 0
  IN /\ parent # 0 => parentRoot # 0
     /\ proposed # 0 => proposedRoot # 0
     /\ isDistinct((IF parentRoot # 0 THEN Hierarchy(ts, parentRoot) ELSE <<>>)
                   \o (IF proposedRoot # 0 THEN Hierarchy(ts, proposedRoot) ELSE <<>>))

NewOk(ts, t) == [ts |-> ts, threw |-> FALSE, count |-> 0, id |-> t]
NewThrow(ts) == [ts |-> ts, threw |-> TRUE, count |-> 0, id |-> 0]

\* new Map()
EmptyMap == [n \in {} |-> 0]

\* the fields a constructed task starts with
FreshTask(ds, d) ==
  [name |-> ds[d].name, definition |-> d, managed |-> ds[d].managed, parent |-> 0,
   subTasks |-> <<>>, subTasksByName |-> EmptyMap, slaveTasks |-> <<>>,
   state |-> "Unstarted", attempts |-> 0, initialAttempts |-> Undefined,
   totalAttempts |-> 0, began |-> Undefined, took |-> Undefined, ended |-> Undefined,
   result |-> NoValue, error |-> NoValue, outcome |-> NoValue, frozen |-> FALSE]

\* Map.set(name, task) on a sub-tasks-by-name map
MapSet(m, name, t) ==
  [n \in DOMAIN m \cup {name} |-> IF n = name THEN t ELSE m[n]]

\* Map.delete(name)
MapDelete(m, name) == [n \in DOMAIN m \ {name} |-> m[n]]

\* a variant of isManagedTopLevel that lets every definition be a top-level task
anyTopLevel(ds, taskDef, parent) == FALSE

\* if (!parent && taskDef.managed) throw: the one check the constructor makes of the
\* definition against the parent
isManagedTopLevel(ds, taskDef, parent) == parent = 0 /\ ds[taskDef].managed

RECURSIVE Task(_, _, _, _), NewSubTasks(_, _, _, _)

\* the rest of the forEach after the first sub-task was made with outcome r
NewSubTasksRest(r, ds, subTaskDefs, this) ==
  IF r.threw THEN r ELSE NewSubTasks(r.ts, ds, subTaskDefs, this)

\* the constructor's last steps, after the sub-tasks were made with outcome r2 on a
\* heap that was ts before the construction: the distinctness check, then the link
\* to the parent
LinkToParent(ts, r2, this, parent) ==
  IF r2.threw THEN NewThrow(ts)
  ELSE IF parent # 0 /\ ~ensureAllTasksDistinct(r2.ts, parent, this) THEN NewThrow(ts)
  ELSE IF parent = 0 THEN NewOk([r2.ts EXCEPT ![this].parent = parent], this)
  ELSE NewOk([r2.ts EXCEPT
                ![this].parent = parent,
                ![parent].subTasks = Append(@, this),
                ![parent].subTasksByName = MapSet(@, r2.ts[this].name, this)], this)

\* a variant of NewSubTasks that makes a sub-task for the first definition only
OnlyFirstSubTask(ts, ds, subTaskDefs, this) ==
  IF subTaskDefs = <<>> THEN NewOk(ts, this)
  ELSE NewSubTasksRest(Task(ts, ds, Head(subTaskDefs), this), ds, <<>>, this)

\* taskDef.subTaskDefs.forEach(subTaskDef => new Task(subTaskDef, this, factory, opts))
NewSubTasks(ts, ds, subTaskDefs, this) ==
  IF subTaskDefs = <<>> THEN NewOk(ts, this)
  ELSE NewSubTasksRest(Task(ts, ds, Head(subTaskDefs), this), ds, Tail(subTaskDefs), this)

\* new Task(taskDef, parent, factory, opts); a failed construction leaves the heap
\* as it was (the objects it made are unreachable)
Task(ts, ds, taskDef, parent) ==
  IF taskDef = 0 THEN NewThrow(ts)
  ELSE IF parent # 0 /\ ~areSubTaskNamesDistinct(ts, parent, <<ds[taskDef].name>>)
       THEN NewThrow(ts)
  ELSE IF isManagedTopLevel(ds, taskDef, parent) THEN NewThrow(ts)
  ELSE LinkToParent(ts, NewSubTasks(Append(ts, FreshTask(ds, taskDef)), ds,
                                    ds[taskDef].subTaskDefs, Len(ts) + 1),
                    Len(ts) + 1, parent)

\* detachSubTask(subTaskName)
detachSubTask(ts, this, subTaskName) ==
  LET detached == getSubTask(ts, this, subTaskName)
  IN IF detached = 0 THEN NewOk(ts, 0)
     ELSE NewOk([ts EXCEPT
                   ![this].subTasks = SelectSeq(@, LAMBDA x : x # detached),
                   ![this].subTasksByName = MapDelete(@, subTaskName)], detached)

----------------------------------------------------------------------------
(* Revival (updateFromPriorVersion) and master/slave tasks (setSlaveTasks) *)

RECURSIVE updateFromPriorVersion(_, _, _, _), UpdateSubTasks(_, _, _, _)

\* a variant of UpdateMade that leaves the new copy as it was constructed
MadeNotUpdated(made, ds, oldSubTask) ==
  IF made.threw THEN Throw(made.ts) ELSE Ok(made.ts)

\* the update of a sub-task that was missing and has been made with outcome `made`
UpdateMade(made, ds, oldSubTask) ==
  IF made.threw THEN Throw(made.ts)
  ELSE updateFromPriorVersion(made.ts, ds, made.id, oldSubTask)

\* the rest of the loop after the first old sub-task was handled with outcome r
UpdateSubTasksRest(r, ds, this, oldSubTasks) ==
  IF r.threw THEN r ELSE UpdateSubTasks(r.ts, ds, this, oldSubTasks)

\* the loop over the old task's sub-tasks
UpdateSubTasks(ts, ds, this, oldSubTasks) ==
  IF oldSubTasks = <<>> THEN Ok(ts)
  ELSE UpdateSubTasksRest(
         IF getSubTask(ts, this, ts[Head(oldSubTasks)].name) # 0
         THEN updateFromPriorVersion(ts, ds,
                getSubTask(ts, this, ts[Head(oldSubTasks)].name), Head(oldSubTasks))
         ELSE UpdateMade(Task(ts, ds, ts[Head(oldSubTasks)].definition, this),
                         ds, Head(oldSubTasks)),
         ds, this, Tail(oldSubTasks))

\* oldTask._state.completed ? oldTask._result : undefined
revivedResult(old) == IF completed(old.state) THEN old.result ELSE NoValue

\* a variant of revivedError that copies the error of any old state
copiedError(old) == old.error

\* oldTask._state.rejected ? oldTask._error : undefined
revivedError(old) == IF rejected(old.state) THEN old.error ELSE NoValue

\* a variant of revivedAttempts that takes the old task's number alone
copiedAttempts(mine, old) == old

\* this._attempts += oldTask._attempts; this._totalAttempts += oldTask._totalAttempts
revivedAttempts(mine, old) == mine + old

\* an argument of updateFromPriorVersion that is an object but not a Task
NonTask == -1

\* a variant of isPriorVersion that accepts a task of any name
anyPriorVersion(ts, this, oldTask) == TRUE

\* oldTask.name === this.name
isPriorVersion(ts, this, oldTask) == ts[oldTask].name = ts[this].name

updateFromPriorVersion(ts, ds, this, oldTask) ==
  IF oldTask = 0 THEN Ok(ts)
  ELSE IF oldTask = NonTask THEN Throw(ts)
  ELSE IF ~isPriorVersion(ts, this, oldTask) THEN Throw(ts)
  ELSE
    LET old == ts[oldTask]
        r1 == Write(ts, this,
                [state |-> old.state,
                 result |-> revivedResult(old),
                 error |-> revivedError(old),
                 attempts |-> revivedAttempts(ts[this].attempts, old.attempts),
                 totalAttempts |-> revivedAttempts(ts[this].totalAttempts,
                                                   old.totalAttempts),
                 began |-> IF IsDef(old.began) THEN old.began ELSE ts[this].began,
                 took |-> IF IsDef(old.took) THEN old.took ELSE ts[this].took,
                 ended |-> IF IsDef(old.ended) THEN old.ended
                           ELSE IF IsDef(old.began) /\ IsDef(old.took)
                                THEN calculateEnded(old.began, old.took)
                                ELSE ts[this].ended])
    IN IF r1.threw THEN r1 ELSE UpdateSubTasks(r1.ts, ds, this, old.subTasks)

\* a variant of leastAdvanced that takes the first state as it comes
firstState(states) == states[1]

\* states.sort(TaskState.compareStates)[0]: the first state of the least rank
RECURSIVE leastAdvanced(_)
leastAdvanced(states) ==
  IF Len(states) = 1 THEN states[1]
  ELSE LET rest == leastAdvanced(Tail(states))
       IN IF compareStates(rest, Head(states)) < 0 THEN rest ELSE Head(states)

\* the slave with the most recent began among slaves[1..n] (0 if none began):
\* the loop's maxBegan / andEnded after n iterations
RECURSIVE maxBeganSlave(_, _, _)
maxBeganSlave(ts, slaves, n) ==
  IF n = 0 THEN 0
  ELSE LET m == maxBeganSlave(ts, slaves, n - 1)
           slave == slaves[n]
       IN IF IsDef(ts[slave].began)
             /\ (m = 0 \/ Val(ts[slave].began) > Val(ts[m].began))
          THEN slave ELSE m

\* a variant of MinOf that takes the greatest
MaxOf(S) == CHOOSE x \in S : \A y \in S : x >= y

\* Math.min over the slaves
MinOf(S) == CHOOSE x \in S : \A y \in S : x <= y

RECURSIVE setSlaveTasks(_, _, _), SetSubSlaveTasks(_, _, _)

\* slaveTasks.map(t => t.getSubTask(name)).filter(t => !!t)
SlaveSubTasks(ts, slaves, name) ==
  SelectSeq([i \in 1..Len(slaves) |-> getSubTask(ts, slaves[i], name)],
            LAMBDA x : x # 0)

\* the rest of the loop after the first sub-task was handled with outcome r
SetSubSlaveTasksRest(r, subTasks, slaves) ==
  IF r.threw THEN r ELSE SetSubSlaveTasks(r.ts, subTasks, slaves)

\* the loop over the master's sub-tasks
SetSubSlaveTasks(ts, subTasks, slaves) ==
  IF subTasks = <<>> THEN Ok(ts)
  ELSE SetSubSlaveTasksRest(
         setSlaveTasks(ts, Head(subTasks),
                       SlaveSubTasks(ts, slaves, ts[Head(subTasks)].name)),
         Tail(subTasks), slaves)

setSlaveTasks(ts, this, slaves) ==
  IF ts[this].frozen THEN Throw(ts)
  ELSE
    LET n == Len(slaves)
        m == maxBeganSlave(ts, slaves, n)
        maxBegan == IF m = 0 THEN Undefined ELSE ts[m].began
        andEnded == IF m = 0 THEN Undefined ELSE ended(ts, m)
        slaveStates == [i \in 1..n |-> ts[slaves[i]].state]
        ts1 == SetFields(ts, this,
                 [slaveTasks |-> slaves,
                  attempts |-> IF n = 0 THEN ts[this].attempts
                               ELSE MinOf({ts[slaves[i]].attempts : i \in 1..n}),
                  totalAttempts |-> IF n = 0 THEN ts[this].totalAttempts
                                    ELSE MinOf({ts[slaves[i]].totalAttempts : i \in 1..n}),
                  state |-> IF n > 0 /\ unstarted(ts[this].state)
                            THEN leastAdvanced(slaveStates) ELSE ts[this].state,
                  began |-> maxBegan,
                  ended |-> andEnded,
                  took |-> calculateTook(maxBegan, andEnded)])
    IN SetSubSlaveTasks(ts1, ts[this].subTasks, slaves)

----------------------------------------------------------------------------
(* Dynamic sub-tasks (createSubTask, getOrCreateSubTask): they change both  *)
(* heaps                                                                    *)

BuildOk(ts, ds, t) == [ts |-> ts, ds |-> ds, threw |-> FALSE, count |-> 0, id |-> t]
BuildThrow(ts, ds) == [ts |-> ts, ds |-> ds, threw |-> TRUE, count |-> 0, id |-> 0]

\* return new Task(subTaskDef, this, this.factory, opts), which gave rt; ds1 are the
\* definitions that remain whether or not the construction failed
CreatedTask(rt, ds1) ==
  IF rt.threw THEN BuildThrow(rt.ts, ds1) ELSE BuildOk(rt.ts, ds1, rt.id)

\* the rest of createSubTask after this.definition.defineSubTask(...) gave rd: a
\* definition that was not added to its parent is unreachable if no task is made
CreatedFrom(ts, ds, rd, this, skipAddToParent) ==
  IF rd.threw THEN BuildThrow(ts, ds)
  ELSE CreatedTask(Task(ts, rd.ds, rd.id, this),
                   IF skipAddToParent /\ Task(ts, rd.ds, rd.id, this).threw
                   THEN ds ELSE rd.ds)

\* createSubTask(subTaskName, execute, taskDefSettings, opts): skipAddToParent is
\* taskDefSettings.skipAddToParent, true if not given
createSubTask(ts, ds, this, subTaskName, execute, skipAddToParent) ==
  CreatedFrom(ts, ds,
              defineSubTask(ds, ts[this].definition, subTaskName, execute,
                            skipAddToParent),
              this, skipAddToParent)

\* the taskDefSettings arguments: none, an object without the property, and objects
\* with skipAddToParent true or false
NoSettings == "undefined"
EmptySettings == "{}"
SkipSettings == "{skipAddToParent: true}"
AddSettings == "{skipAddToParent: false}"
TaskDefSettings == {NoSettings, EmptySettings, SkipSettings, AddSettings}

\* a variant of createSubTaskSettings that passes the settings on as given
givenSettings(taskDefSettings) == taskDefSettings

\* the settings that createSubTask passes to defineSubTask: {skipAddToParent: true}
\* without settings, and the property set to true if the settings do not have it
createSubTaskSettings(taskDefSettings) ==
  IF taskDefSettings = NoSettings THEN SkipSettings
  ELSE IF taskDefSettings \notin {SkipSettings, AddSettings} THEN SkipSettings
  ELSE taskDefSettings

\* settings && settings.skipAddToParent, as defineSubTask and TaskDef read it
skipAddToParentOf(settings) == settings = SkipSettings

\* the `unusable` getter of a task
unusable(ts, ds, t) == ds[ts[t].definition].unusable

\* newSubTask.updateFromPriorVersion(subTask); return newSubTask, after
\* createSubTask gave rc
Recreated(rc, subTask) ==
  IF rc.threw THEN rc
  ELSE [rc EXCEPT !.ts = updateFromPriorVersion(rc.ts, rc.ds, rc.id, subTask).ts,
                  !.threw = updateFromPriorVersion(rc.ts, rc.ds, rc.id, subTask).threw]

getOrCreateSubTask(ts, ds, this, subTaskName, execute, skipAddToParent) ==
  IF getSubTask(ts, this, subTaskName) = 0
  THEN createSubTask(ts, ds, this, subTaskName, execute, skipAddToParent)
  ELSE IF ~unusable(ts, ds, getSubTask(ts, this, subTaskName))
  THEN BuildOk(ts, ds, getSubTask(ts, this, subTaskName))
  ELSE Recreated(createSubTask(detachSubTask(ts, this, subTaskName).ts, ds, this,
                               subTaskName, execute, skipAddToParent),
                 getSubTask(ts, this, subTaskName))

----------------------------------------------------------------------------
(* The registry of tasks by name (task-utils.js).  A registry is undefined  *)
(* or a map (an object or a Map) from a key to a value; the values offered  *)
(* are tasks and NonTask, an object that is not task-like.                  *)

\* Task.isTaskLike(task, taskName): a Task instance is task-like under any name
isTaskLike(ts, task, taskName) == task # NonTask

\* getTasks(tasksByName): the tasks among the values of the map
getTasks(ts, byName) ==
  {byName[k] : k \in {n \in DOMAIN byName : isTaskLike(ts, byName[n], n)}}

\* setTask(tasksByName, taskName, task): an undefined registry raises a TypeError
setTask(byName, taskName, task) ==
  IF byName = Undefined THEN [byName |-> byName, threw |-> TRUE]
  ELSE [byName |-> Some(MapSet(Val(byName), taskName, task)), threw |-> FALSE]

\* a variant of isAnyTaskNotFullyFinalised that looks at the registered tasks alone
isAnyTaskNotFinalised(ts, byName) ==
  IF byName = Undefined THEN FALSE
  ELSE \E t \in getTasks(ts, Val(byName)) : ~finalised(ts[t].state)

\* isAnyTaskNotFullyFinalised(tasksByName)
isAnyTaskNotFullyFinalised(ts, byName) ==
  IF byName = Undefined THEN FALSE
  ELSE \E t \in getTasks(ts, Val(byName)) : ~isFullyFinalised(ts, t)

----------------------------------------------------------------------------
(* The calls offered to a task, and the record of the last call *)

TaskIds == 1..Len(tasks)

NoPrev == [call |-> NoCall, t |-> 0, threw |-> FALSE, before |-> <<>>]

NoLast ==
  [call |-> NoCall, t |-> 0, threw |-> FALSE, count |-> 0, n |-> 0,
   before |-> <<>>, prev |-> NoPrev]

\* the record of the call before, kept when the next call is recorded
Prev == [call |-> last.call, t |-> last.t, threw |-> last.threw, before |-> last.before]

\* the call `op` made on task t
Returned(r, t, op) ==
  /\ tasks' = r.ts
  /\ last' = [call |-> op, t |-> t, threw |-> r.threw, count |-> r.count,
              n |-> last.n + 1, before |-> tasks, prev |-> Prev]
  /\ UNCHANGED <<defs, tasksByName>>

Do(t, op) == Returned(Call(tasks, t, op), t, op)

Start ==
  \E t \in TaskIds, time \in Times, rec \in BOOLEAN :
    /\ \A u \in TaskIds : tasks[u].totalAttempts < MaxAttempts
    /\ Do(t, [NoCall EXCEPT !.kind = "start", !.time = time, !.rec = rec])

BeganAt ==
  \E t \in TaskIds, time \in Times, rec \in BOOLEAN :
    Do(t, [NoCall EXCEPT !.kind = "beganAt", !.time = time, !.rec = rec])

EndedAt ==
  \E t \in TaskIds, time \in Times, rec \in BOOLEAN :
    Do(t, [NoCall EXCEPT !.kind = "endedAt", !.time = time, !.rec = rec])

Reset ==
  \E t \in TaskIds : Do(t, [NoCall EXCEPT !.kind = "reset"])

IncrementAttempts ==
  \E t \in TaskIds, rec \in BOOLEAN :
    /\ \A u \in TaskIds : tasks[u].totalAttempts < MaxAttempts
    /\ Do(t, [NoCall EXCEPT !.kind = "incrementAttempts", !.rec = rec])

DecrementAttempts ==
  \E t \in TaskIds, rec \in BOOLEAN :
    /\ \A u \in TaskIds : tasks[u].attempts >= 0
    /\ Do(t, [NoCall EXCEPT !.kind = "decrementAttempts", !.rec = rec])

Complete ==
  \E t \in TaskIds, ov \in BOOLEAN, rec \in BOOLEAN :
    Do(t, [NoCall EXCEPT !.kind = "complete", !.result = "R1",
                         !.overrideTimedOut = ov, !.rec = rec])

Succeed ==
  \E t \in TaskIds, ov \in BOOLEAN, rec \in BOOLEAN :
    Do(t, [NoCall EXCEPT !.kind = "succeed", !.result = "R1",
                         !.overrideTimedOut = ov, !.rec = rec])

\* the options of timeout: none, or one of the three
TimeoutOpts == {"none", "overrideCompleted", "overrideUnstarted", "reverseAttempt"}

Timeout ==
  \E t \in TaskIds, opt \in TimeoutOpts, rec \in BOOLEAN :
    Do(t, [NoCall EXCEPT !.kind = "timeout", !.error = "E1",
                         !.overrideCompleted = (opt = "overrideCompleted"),
                         !.overrideUnstarted = (opt = "overrideUnstarted"),
                         !.reverseAttempt = (opt = "reverseAttempt"), !.rec = rec])

Fail ==
  \E t \in TaskIds, err \in Errors \cup {NoValue}, rec \in BOOLEAN :
    Do(t, [NoCall EXCEPT !.kind = "fail", !.error = err, !.rec = rec])

FailAs ==
  \E t \in TaskIds, err \in Errors \cup {NoValue}, rec \in BOOLEAN :
    Do(t, [NoCall EXCEPT !.kind = "failAs", !.stateName = "CustomFailed",
                         !.error = err, !.rec = rec])

Reject ==
  \E t \in TaskIds, rec \in BOOLEAN :
    Do(t, [NoCall EXCEPT !.kind = "reject", !.error = "E1", !.rec = rec])

Discard ==
  \E t \in TaskIds, rec \in BOOLEAN :
    Do(t, [NoCall EXCEPT !.kind = "discard", !.error = "E1", !.rec = rec])

Abandon ==
  \E t \in TaskIds, rec \in BOOLEAN :
    Do(t, [NoCall EXCEPT !.kind = "abandon", !.error = "E1", !.rec = rec])

Freeze ==
  \E t \in TaskIds :
    /\ tasks' = freeze(tasks, t)
    /\ last' = [call |-> [NoCall EXCEPT !.kind = "freeze"], t |-> t, threw |-> FALSE,
                count |-> 0, n |-> last.n + 1, before |-> tasks, prev |-> Prev]
    /\ UNCHANGED <<defs, tasksByName>>

----------------------------------------------------------------------------
(* Specification Spec: MaxCalls calls, in any order, on the tasks of a tree *)
(* Batch with sub-tasks A and B that earlier calls have brought into any of *)
(* the prepared states                                                      *)

BatchDefs ==
  LET r1 == defineTask(<<>>, "Batch", AFunction)
      r2 == defineSubTask(r1.ds, r1.id, "A", NoExecute, FALSE)
      r3 == defineSubTask(r2.ds, r1.id, "B", AFunction, FALSE)
  IN r3.ds

Profiles ==
  {"Unstarted", "Started", "Completed", "Failed", "TimedOut", "Rejected", "Retried"}

\* the calls that bring a fresh task t into a profile
StartCall == [NoCall EXCEPT !.kind = "start"]
CompleteCall == [NoCall EXCEPT !.kind = "complete", !.result = "R1"]
FailCall == [NoCall EXCEPT !.kind = "fail", !.error = "E1"]
TimeoutCall == [NoCall EXCEPT !.kind = "timeout", !.error = "E1"]
RejectCall == [NoCall EXCEPT !.kind = "reject", !.error = "E1"]
ResetCall == [NoCall EXCEPT !.kind = "reset"]

ProfileCalls(profile) ==
  CASE profile = "Unstarted" -> <<>>
    [] profile = "Started" -> <<StartCall>>
    [] profile = "Completed" -> <<StartCall, CompleteCall>>
    [] profile = "Failed" -> <<StartCall, FailCall>>
    [] profile = "TimedOut" -> <<StartCall, TimeoutCall>>
    [] profile = "Rejected" -> <<StartCall, RejectCall>>
    [] profile = "Retried" -> <<StartCall, FailCall, ResetCall>>

RECURSIVE CallAll(_, _, _)
CallAll(ts, t, ops) ==
  IF ops = <<>> THEN ts ELSE CallAll(Call(ts, t, Head(ops)).ts, t, Tail(ops))

Prepare(ts, t, profile) == CallAll(ts, t, ProfileCalls(profile))

\* the prepared trees: the sub-tasks are prepared first, then Batch
UnfrozenTrees ==
  LET fresh == {Task(<<>>, BatchDefs, 1, 0).ts}
      withA == {Prepare(ts, 2, p) : ts \in fresh, p \in Profiles}
      withB == {Prepare(ts, 3, p) : ts \in withA, p \in Profiles}
  IN {Prepare(ts, 1, p) : ts \in withB, p \in Profiles}

\* and then nothing, sub-task A or the whole tree is frozen
PreparedTrees ==
  UnfrozenTrees \cup {freeze(ts, t) : ts \in UnfrozenTrees, t \in {1, 2}}

Init ==
  /\ defs = BatchDefs
  /\ tasks \in PreparedTrees
  /\ last = NoLast
  /\ tasksByName = Undefined

Calls ==
  \/ Start \/ BeganAt \/ EndedAt \/ Reset \/ IncrementAttempts \/ DecrementAttempts
  \/ Complete \/ Succeed \/ Timeout \/ Fail \/ FailAs \/ Reject \/ Discard \/ Abandon
  \/ Freeze

Next == last.n < MaxCalls /\ Calls

Spec == Init /\ [][Next]_vars

----------------------------------------------------------------------------
(* Specification SpecLeaf: MaxLeafCalls calls, in any order, on a root task  *)
(* without sub-tasks that earlier calls have brought into any of the         *)
(* profiles, frozen or not                                                   *)

LeafDefs == defineTask(<<>>, "Leaf", AFunction).ds

PreparedLeaves ==
  LET leaves == {Prepare(Task(<<>>, LeafDefs, 1, 0).ts, 1, p) : p \in Profiles}
  IN leaves \cup {freeze(ts, 1) : ts \in leaves}

InitLeaf ==
  /\ defs = LeafDefs
  /\ tasks \in PreparedLeaves
  /\ last = NoLast
  /\ tasksByName = Undefined

NextLeaf == last.n < MaxLeafCalls /\ Calls

SpecLeaf == InitLeaf /\ [][NextLeaf]_vars

----------------------------------------------------------------------------
(* Specification SpecSlaves: setSlaveTasks on the tasks of a master tree     *)
(* Batch{A} (tasks 1, 2), with slaves taken from two more trees of the same  *)
(* definition (tasks 3, 4 and 5, 6) that earlier calls have prepared         *)

PairDefs ==
  defineSubTask(defineTask(<<>>, "Batch", AFunction).ds, 1, "A", NoExecute, FALSE).ds

StartAt(time) == [NoCall EXCEPT !.kind = "start", !.time = time]
EndedAtCall(time) == [NoCall EXCEPT !.kind = "endedAt", !.time = time]

\* the calls made earlier on the root of a slave tree
SlaveRootCalls ==
  {<<>>,
   <<StartAt(1)>>,
   <<StartAt(MaxTime)>>,
   <<StartAt(1), CompleteCall, EndedAtCall(MaxTime)>>,
   <<StartAt(MaxTime), FailCall>>,
   <<StartAt(1), TimeoutCall>>,
   <<StartAt(MaxTime), RejectCall>>,
   <<StartAt(1), FailCall, ResetCall, StartAt(MaxTime)>>}

\* the calls made earlier on the sub-task of a slave tree
SlaveSubCalls == {<<>>, <<StartAt(1)>>, <<StartAt(1), CompleteCall>>}

\* the three trees, fresh
ThreePairs ==
  Task(Task(Task(<<>>, PairDefs, 1, 0).ts, PairDefs, 1, 0).ts, PairDefs, 1, 0).ts

PreparedSlaveHeaps ==
  LET fresh == {ThreePairs}
      sub1 == {CallAll(ts, 4, ops) : ts \in fresh, ops \in SlaveSubCalls}
      root1 == {CallAll(ts, 3, ops) : ts \in sub1, ops \in SlaveRootCalls}
      sub2 == {CallAll(ts, 6, ops) : ts \in root1, ops \in SlaveSubCalls}
      root2 == {CallAll(ts, 5, ops) : ts \in sub2, ops \in SlaveRootCalls}
      msub == {Prepare(ts, 2, p) : ts \in root2, p \in {"Unstarted", "Started"}}
      master == {Prepare(ts, 1, p) : ts \in msub, p \in Profiles}
  IN master \cup {freeze(ts, 1) : ts \in master}

MasterIds == {1, 2}
SlaveLists == {<<>>, <<3>>, <<5>>, <<3, 5>>, <<5, 3>>, <<4, 6>>}

SetSlaveTasks ==
  \E this \in MasterIds, slaves \in SlaveLists :
    Returned(setSlaveTasks(tasks, this, slaves), this,
             [NoCall EXCEPT !.kind = "setSlaveTasks", !.slaves = slaves])

InitSlaves ==
  /\ defs = PairDefs
  /\ tasks \in PreparedSlaveHeaps
  /\ last = NoLast
  /\ tasksByName = Undefined

NextSlaves == last.n < MaxCalls /\ SetSlaveTasks

SpecSlaves == InitSlaves /\ [][NextSlaves]_vars

----------------------------------------------------------------------------
(* Specification SpecRevive: updateFromPriorVersion between the tasks of a   *)
(* prepared tree Batch{A, B} (the prior version, tasks 1, 2, 3) and of a new *)
(* tree Batch{A} (tasks 4, 5) that is fresh, started or frozen; in the deep  *)
(* heaps the prior A has a sub-task x (task 6) that was created dynamically  *)

ReviveDefs ==
  defineSubTask(defineTask(BatchDefs, "Batch", AFunction).ds, 4, "A", NoExecute, FALSE).ds

PreparedRevivals ==
  LET fresh == {Task(ts, ReviveDefs, 4, 0).ts : ts \in UnfrozenTrees}
  IN fresh \cup {Prepare(ts, 4, "Started") : ts \in fresh}
           \cup {freeze(ts, 4) : ts \in fresh}

\* oldA.createSubTask("x", execute): x is not added to the definition of A
DeepRevival(ts) == createSubTask(ts, ReviveDefs, 2, "x", AFunction, TRUE)

DeepDefs == DeepRevival(Task(Task(<<>>, BatchDefs, 1, 0).ts, ReviveDefs, 4, 0).ts).ds

PreparedDeepRevivals ==
  {Prepare(DeepRevival(Task(ts, ReviveDefs, 4, 0).ts).ts, 6, p) :
     ts \in UnfrozenTrees, p \in {"Unstarted", "Completed", "Failed"}}

\* task t is a sub-task, at any depth, of task u
IsSubTaskOf(ts, t, u) == t # u /\ t \in Range(Hierarchy(ts, u))

\* the revival of a task from a task it is a sub-task of copies the old sub-tasks
\* below themselves without end (the code recurses until the stack is exhausted):
\* that call is not offered
UpdateFromPriorVersion ==
  \E this \in TaskIds, old \in {0, NonTask} \cup TaskIds :
    /\ old \in TaskIds => ~IsSubTaskOf(tasks, this, old)
    /\ Returned(updateFromPriorVersion(tasks, defs, this, old), this,
                [NoCall EXCEPT !.kind = "updateFromPriorVersion", !.other = old])

InitRevive ==
  /\ \/ defs = ReviveDefs /\ tasks \in PreparedRevivals
     \/ defs = DeepDefs /\ tasks \in PreparedDeepRevivals
  /\ last = NoLast
  /\ tasksByName = Undefined

NextRevive == last.n < MaxCalls /\ UpdateFromPriorVersion

SpecRevive == InitRevive /\ [][NextRevive]_vars

----------------------------------------------------------------------------
(* Specification SpecDefs: MaxDefCalls definition calls on a root definition *)
(* that has been given some sub-definitions                                  *)

\* the names offered: plain, padded with blanks, blank
OfferedNames == {"a", " a ", "b ", "c", "  "}
OfferedNameLists == {<<>>, <<"a">>, <<"c", "d">>, <<"c", " a ">>, <<"c", "c">>, <<"d", "  ">>}
Executes == {NoExecute, AFunction, NotAFunction}

PreparedDefs ==
  {defineSubTasks(defineTask(<<>>, "Batch", AFunction).ds, 1, names, FALSE).ds :
     names \in {<<>>, <<"a">>, <<"a", "b">>, <<"b", "a">>}}

DefIds == 1..Len(defs)

\* the record of a call on the definitions: `before` is the heap of definitions
DefReturned(r, d, op) ==
  /\ defs' = r.ds
  /\ last' = [call |-> op, t |-> d, threw |-> r.threw, count |-> 0,
              n |-> last.n + 1, before |-> defs, prev |-> Prev]
  /\ UNCHANGED <<tasks, tasksByName>>

DefineTask ==
  \E name \in OfferedNames, execute \in Executes :
    DefReturned(defineTask(defs, name, execute), 0,
                [NoCall EXCEPT !.kind = "defineTask", !.name = name,
                               !.execute = execute])

DefineSubTask ==
  \E this \in DefIds, name \in OfferedNames, execute \in Executes, skip \in BOOLEAN :
    DefReturned(defineSubTask(defs, this, name, execute, skip), this,
                [NoCall EXCEPT !.kind = "defineSubTask", !.name = name,
                               !.execute = execute, !.skipAddToParent = skip])

DefineSubTasks ==
  \E this \in DefIds, names \in OfferedNameLists, skip \in BOOLEAN :
    DefReturned(defineSubTasks(defs, this, names, skip), this,
                [NoCall EXCEPT !.kind = "defineSubTasks", !.names = names,
                               !.skipAddToParent = skip])

InitDefs ==
  /\ defs \in PreparedDefs
  /\ tasks = <<>>
  /\ last = NoLast
  /\ tasksByName = Undefined

NextDefs == last.n < MaxDefCalls /\ (DefineTask \/ DefineSubTask \/ DefineSubTasks)

SpecDefs == InitDefs /\ [][NextDefs]_vars

----------------------------------------------------------------------------
(* Specification SpecBuild: up to MaxBuildCalls calls that define,          *)
(* construct, attach, detach or revive, in any order, on prepared heaps of  *)
(* definitions and tasks                                                    *)

\* the record of a call that may change both heaps and returns a task
Built(r, t, op) ==
  /\ tasks' = r.ts
  /\ defs' = r.ds
  /\ last' = [call |-> op, t |-> t, threw |-> r.threw, count |-> 0,
              n |-> last.n + 1, before |-> tasks, prev |-> Prev, id |-> r.id]
  /\ UNCHANGED tasksByName

\* the sub-task names offered
BuildNames == {"A", "c", " a "}

\* new Task(taskDef, parent, factory, opts), with or without a definition or parent
NewTask ==
  \E taskDef \in {0} \cup DefIds, parent \in {0} \cup TaskIds :
    Built(CreatedTask(Task(tasks, defs, taskDef, parent), defs), parent,
          [NoCall EXCEPT !.kind = "newTask", !.other = taskDef])

CreateSubTask ==
  \E this \in TaskIds, name \in BuildNames, execute \in Executes, skip \in BOOLEAN :
    Built(createSubTask(tasks, defs, this, name, execute, skip), this,
          [NoCall EXCEPT !.kind = "createSubTask", !.name = name,
                         !.execute = execute, !.skipAddToParent = skip])

GetOrCreateSubTask ==
  \E this \in TaskIds, name \in BuildNames, execute \in Executes, skip \in BOOLEAN :
    Built(getOrCreateSubTask(tasks, defs, this, name, execute, skip), this,
          [NoCall EXCEPT !.kind = "getOrCreateSubTask", !.name = name,
                         !.execute = execute, !.skipAddToParent = skip])

DetachSubTask ==
  \E this \in TaskIds, name \in BuildNames :
    Built(CreatedTask(detachSubTask(tasks, this, name), defs), this,
          [NoCall EXCEPT !.kind = "detachSubTask", !.name = name])

SetUnusable ==
  \E d \in DefIds, b \in BOOLEAN :
    DefReturned(DefOk(setUnusable(defs, d, b), d), d,
                [NoCall EXCEPT !.kind = "setUnusable", !.overrideCompleted = b])

\* the prepared heaps: the definitions Batch{A, B} alone; with a task tree; with
\* sub-definition A marked unusable; with a dynamic sub-task x of sub-task A
BatchTree == Task(<<>>, BatchDefs, 1, 0).ts

PreparedBuilds ==
  {[ds |-> BatchDefs, ts |-> <<>>],
   [ds |-> BatchDefs, ts |-> BatchTree],
   [ds |-> setUnusable(BatchDefs, 2, TRUE), ts |-> BatchTree],
   [ds |-> createSubTask(BatchTree, BatchDefs, 2, "x", AFunction, TRUE).ds,
    ts |-> createSubTask(BatchTree, BatchDefs, 2, "x", AFunction, TRUE).ts]}

InitBuild ==
  /\ \E b \in PreparedBuilds : defs = b.ds /\ tasks = b.ts
  /\ last = NoLast
  /\ tasksByName = Undefined

\* a run of calls ends at the first call that raises
NextBuild ==
  /\ last.n < MaxBuildCalls
  /\ ~last.threw
  /\ \/ DefineTask \/ DefineSubTask \/ DefineSubTasks \/ SetUnusable
     \/ NewTask \/ CreateSubTask \/ GetOrCreateSubTask \/ DetachSubTask
     \/ UpdateFromPriorVersion

SpecBuild == InitBuild /\ [][NextBuild]_vars

----------------------------------------------------------------------------
(* Specification SpecMaster: setSlaveTasks on the master Batch (task 1) of   *)
(* the three trees, then MaxCalls calls on the master                        *)

\* the calls made earlier on the root of a slave tree
MasterSlaveRootCalls ==
  {<<>>, <<StartAt(1)>>, <<StartAt(1), TimeoutCall>>, <<StartAt(1), CompleteCall>>}

\* the calls made earlier on the sub-task of a slave tree
MasterSlaveSubCalls == {<<>>, <<StartAt(1)>>}

\* the heaps before setSlaveTasks: slave Batch 3 may have been frozen
PreparedMasterHeaps ==
  LET fresh == {ThreePairs}
      sub1 == {CallAll(ts, 4, ops) : ts \in fresh, ops \in MasterSlaveSubCalls}
      root1 == {CallAll(ts, 3, ops) : ts \in sub1, ops \in MasterSlaveRootCalls}
      sub2 == {CallAll(ts, 6, ops) : ts \in root1, ops \in MasterSlaveSubCalls}
      root2 == {CallAll(ts, 5, ops) : ts \in sub2, ops \in MasterSlaveRootCalls}
      msub == {Prepare(ts, 2, p) : ts \in root2, p \in {"Unstarted", "Completed"}}
      master == {Prepare(ts, 1, p) : ts \in msub, p \in {"Unstarted", "Started"}}
  IN master \cup {freeze(ts, 3) : ts \in master}

InitMaster ==
  /\ defs = PairDefs
  /\ tasks \in PreparedMasterHeaps
  /\ last = NoLast
  /\ tasksByName = Undefined

NextMaster ==
  \/ /\ last.n = 0
     /\ SetSlaveTasks
     /\ last'.t = 1
  \/ /\ last.n > 0 /\ last.n < 1 + MaxCalls
     /\ Calls
     /\ last'.t = 1

SpecMaster == InitMaster /\ [][NextMaster]_vars

----------------------------------------------------------------------------
(* Specification SpecAttempts: MaxAttemptCalls calls of any kind, among them *)
(* setSlaveTasks, updateFromPriorVersion and revertAttempts, on the three    *)
(* trees Batch{A}                                                            *)

RevertAttempts ==
  \E t \in TaskIds, rec \in BOOLEAN :
    Do(t, [NoCall EXCEPT !.kind = "revertAttempts", !.rec = rec])

\* the maxima of attempts offered to discardIfOverAttempted
Maxima == 1..MaxAttempts

DiscardIfOverAttempted ==
  \E t \in TaskIds, max \in Maxima, rec \in BOOLEAN :
    Do(t, [NoCall EXCEPT !.kind = "discardIfOverAttempted", !.max = max, !.rec = rec])

\* the heaps: Batch 3 fresh or timed out, Batch 5 fresh or started, Batch 1 fresh
\* or started
PreparedAttemptHeaps ==
  LET root1 == {CallAll(ThreePairs, 3, ops) : ops \in {<<>>, <<StartAt(1), TimeoutCall>>}}
      root2 == {CallAll(ts, 5, ops) : ts \in root1, ops \in {<<>>, <<StartAt(1)>>}}
  IN {Prepare(ts, 1, p) : ts \in root2, p \in {"Unstarted", "Started"}}

InitAttempts ==
  /\ defs = PairDefs
  /\ tasks \in PreparedAttemptHeaps
  /\ last = NoLast
  /\ tasksByName = Undefined

NextAttempts ==
  /\ last.n < MaxAttemptCalls
  /\ \/ SetSlaveTasks \/ UpdateFromPriorVersion \/ RevertAttempts
     \/ DiscardIfOverAttempted \/ Calls

SpecAttempts == InitAttempts /\ [][NextAttempts]_vars

----------------------------------------------------------------------------
(* Specification SpecRegistry: MaxRegistryCalls calls of setTask and         *)
(* isAnyTaskNotFullyFinalised on a registry, undefined or empty at first,    *)
(* over a prepared tree Batch{A, B}                                          *)

RegistryKeys == {"Batch", "A", "k"}

\* setTask(tasksByName, key, value)
SetTask ==
  \E key \in RegistryKeys, value \in TaskIds \cup {NonTask} :
    /\ tasksByName' = setTask(tasksByName, key, value).byName
    /\ last' = [call |-> [NoCall EXCEPT !.kind = "setTask", !.name = key,
                                        !.other = value],
                t |-> 0, threw |-> setTask(tasksByName, key, value).threw,
                count |-> 0, n |-> last.n + 1, before |-> tasks, prev |-> Prev,
                answer |-> FALSE]
    /\ UNCHANGED <<tasks, defs>>

\* isAnyTaskNotFullyFinalised(tasksByName): `answer` is what it returned
IsAnyTaskNotFullyFinalised ==
  /\ last' = [call |-> [NoCall EXCEPT !.kind = "isAnyTaskNotFullyFinalised"],
              t |-> 0, threw |-> FALSE, count |-> 0, n |-> last.n + 1,
              before |-> tasks, prev |-> Prev,
              answer |-> isAnyTaskNotFullyFinalised(tasks, tasksByName)]
  /\ UNCHANGED <<tasks, defs, tasksByName>>

\* the trees: A and B fresh, completed or rejected, then Batch started or completed
PreparedRegistryTrees ==
  LET withA == {Prepare(BatchTree, 2, p) : p \in {"Unstarted", "Completed", "Rejected"}}
      withB == {Prepare(ts, 3, p) : ts \in withA,
                                    p \in {"Unstarted", "Completed", "Rejected"}}
  IN {Prepare(ts, 1, p) : ts \in withB, p \in {"Started", "Completed"}}

InitRegistry ==
  /\ defs = BatchDefs
  /\ tasks \in PreparedRegistryTrees
  /\ last = NoLast
  /\ tasksByName \in {Undefined, Some(EmptyMap)}

NextRegistry ==
  /\ last.n < MaxRegistryCalls
  /\ (SetTask \/ IsAnyTaskNotFullyFinalised)

SpecRegistry == InitRegistry /\ [][NextRegistry]_vars

----------------------------------------------------------------------------
(* Specification SpecFreeze: MaxFreezeCalls calls of freeze, setSlaveTasks   *)
(* and createSubTask on the three trees Batch{A}, where Batch 1 may have the *)
(* slaves 3 and 5 and a sub-task may have been frozen                        *)

PreparedFreezeHeaps ==
  LET free == {ThreePairs, setSlaveTasks(ThreePairs, 1, <<3, 5>>).ts}
  IN free \cup {freeze(ts, t) : ts \in free, t \in {2, 4}}

InitFreeze ==
  /\ defs = PairDefs
  /\ tasks \in PreparedFreezeHeaps
  /\ last = NoLast
  /\ tasksByName = Undefined

NextFreeze ==
  /\ last.n < MaxFreezeCalls
  /\ (Freeze \/ SetSlaveTasks \/ CreateSubTask)

SpecFreeze == InitFreeze /\ [][NextFreeze]_vars

----------------------------------------------------------------------------
(* Specification SpecRetry: up to MaxCycles times the cycle reset(); start(); *)
(* fail(err); discardIfOverAttempted(max) on a fresh task without sub-tasks;  *)
(* every call record carries the max the caller has chosen                    *)

\* the maxima of attempts that the caller may have chosen
RetryMaxima == 1..(MaxCycles - 1)

\* the call of the cycle that comes after last.n calls
RetryCall(time) ==
  CASE last.n % 4 = 0 -> [NoCall EXCEPT !.kind = "reset", !.max = last.call.max]
    [] last.n % 4 = 1 -> [NoCall EXCEPT !.kind = "start", !.time = time,
                                        !.max = last.call.max]
    [] last.n % 4 = 2 -> [NoCall EXCEPT !.kind = "fail", !.error = "E1",
                                        !.max = last.call.max]
    [] last.n % 4 = 3 -> [NoCall EXCEPT !.kind = "discardIfOverAttempted",
                                        !.max = last.call.max]

RetryStep == \E time \in Times : Do(1, RetryCall(time))

InitRetry ==
  /\ defs = LeafDefs
  /\ tasks = Task(<<>>, LeafDefs, 1, 0).ts
  /\ \E max \in RetryMaxima : last = [NoLast EXCEPT !.call.max = max]
  /\ tasksByName = Undefined

NextRetry == last.n < 4 * MaxCycles /\ RetryStep

\* the caller goes on with the cycle
SpecRetry == InitRetry /\ [][NextRetry]_vars /\ WF_vars(NextRetry)

----------------------------------------------------------------------------
(* Specification SpecDynamic: MaxDynamicCalls calls of createSubTask and     *)
(* getOrCreateSubTask with the settings as the caller gives them, on the     *)
(* prepared heaps of SpecBuild                                               *)

\* the record of such a call: `defsBefore` is the heap of definitions before it
BuiltWith(r, t, op) ==
  /\ tasks' = r.ts
  /\ defs' = r.ds
  /\ last' = [call |-> op, t |-> t, threw |-> r.threw, count |-> 0,
              n |-> last.n + 1, before |-> tasks, prev |-> Prev, id |-> r.id,
              defsBefore |-> defs]
  /\ UNCHANGED tasksByName

CreateSubTaskWith ==
  \E this \in TaskIds, name \in BuildNames, settings \in TaskDefSettings :
    BuiltWith(createSubTask(tasks, defs, this, name, AFunction,
                            skipAddToParentOf(createSubTaskSettings(settings))),
              this,
              [NoCall EXCEPT !.kind = "createSubTask", !.name = name,
                             !.execute = AFunction, !.settings = settings])

GetOrCreateSubTaskWith ==
  \E this \in TaskIds, name \in BuildNames, settings \in TaskDefSettings :
    BuiltWith(getOrCreateSubTask(tasks, defs, this, name, AFunction,
                                 skipAddToParentOf(createSubTaskSettings(settings))),
              this,
              [NoCall EXCEPT !.kind = "getOrCreateSubTask", !.name = name,
                             !.execute = AFunction, !.settings = settings])

InitDynamic ==
  /\ \E b \in PreparedBuilds : defs = b.ds /\ tasks = b.ts /\ b.ts # <<>>
  /\ last = NoLast
  /\ tasksByName = Undefined

NextDynamic ==
  /\ last.n < MaxDynamicCalls
  /\ (CreateSubTaskWith \/ GetOrCreateSubTaskWith)

SpecDynamic == InitDynamic /\ [][NextDynamic]_vars

----------------------------------------------------------------------------
(* Specification SpecReset: MaxResetCalls calls of reset on the tasks of a   *)
(* prepared tree Batch{A, B}, on whose sub-task A a later call may have been *)
(* made: fail(err), or timeout(err, {overrideCompleted: true})               *)

LateTimeoutCall ==
  [NoCall EXCEPT !.kind = "timeout", !.error = "E1", !.overrideCompleted = TRUE]

PreparedResetTrees ==
  LET late == {CallAll(ts, 2, ops) :
                 ts \in UnfrozenTrees, ops \in {<<>>, <<FailCall>>, <<LateTimeoutCall>>}}
  IN late \cup {freeze(ts, t) : ts \in late, t \in {1, 2}}

InitReset ==
  /\ defs = BatchDefs
  /\ tasks \in PreparedResetTrees
  /\ last = NoLast
  /\ tasksByName = Undefined

NextReset == last.n < MaxResetCalls /\ Reset

SpecReset == InitReset /\ [][NextReset]_vars

----------------------------------------------------------------------------
(* Specification SpecRejected: MaxRejectedCalls calls on the tasks of the    *)
(* three trees Batch{A}, some of whose tasks earlier calls have rejected,    *)
(* discarded or abandoned, with Batch 1 the master of Batch 3 and 5 or not   *)

RejectAll == [NoCall EXCEPT !.kind = "reject", !.error = "E1", !.rec = TRUE]
AbandonAll == [NoCall EXCEPT !.kind = "abandon", !.error = "E1", !.rec = TRUE]
DiscardCall == [NoCall EXCEPT !.kind = "discard", !.error = "E1"]

PreparedRejectedHeaps ==
  LET sub1 == {CallAll(ThreePairs, 4, ops) : ops \in {<<>>, <<StartAt(1), DiscardCall>>}}
      root1 == {CallAll(ts, 3, ops) :
                  ts \in sub1, ops \in {<<>>, <<StartAt(1)>>, <<StartAt(1), RejectAll>>,
                                        <<AbandonAll>>}}
      msub == {CallAll(ts, 2, ops) : ts \in root1, ops \in {<<>>, <<RejectCall>>}}
      master == {CallAll(ts, 1, ops) :
                   ts \in msub, ops \in {<<>>, <<StartAt(1)>>, <<RejectAll>>}}
  IN master \cup {setSlaveTasks(ts, 1, <<3, 5>>).ts : ts \in master}

InitRejected ==
  /\ defs = PairDefs
  /\ tasks \in PreparedRejectedHeaps
  /\ last = NoLast
  /\ tasksByName = Undefined

NextRejected ==
  /\ last.n < MaxRejectedCalls
  /\ \/ Start \/ Reset \/ IncrementAttempts \/ DecrementAttempts \/ Complete
     \/ Succeed \/ Timeout \/ Fail \/ Reject \/ Discard \/ Abandon
     \/ DiscardIfOverAttempted

SpecRejected == InitRejected /\ [][NextRejected]_vars

----------------------------------------------------------------------------
(* Properties of the calls on a tree (specification Spec).  They are stated *)
(* of the last call made: `last.before` is the heap it found, `tasks` the   *)
(* heap it left.                                                            *)

Called == last.n > 0 /\ last.t # 0

\* the task the last call was made on, before and after the call
Was == last.before[last.t]
Now == tasks[last.t]

SameOutcome(a, b) ==
  /\ a.state = b.state /\ a.attempts = b.attempts /\ a.totalAttempts = b.totalAttempts
  /\ a.result = b.result /\ a.error = b.error

SameTimes(a, b) == a.began = b.began /\ a.ended = b.ended

\* the method's own guard: the states of task t in which the call changes t itself
OwnGuard(ts, t, op) ==
  CASE op.kind = "start" -> unstarted(ts[t].state)
    [] op.kind = "complete" ->
         incomplete(ts[t].state) /\ (op.overrideTimedOut \/ ~timedOut(ts[t].state))
    [] op.kind = "fail" ->
         ~timedOut(ts[t].state) /\ ~rejected(ts[t].state) /\ ~failed(ts[t].state)
    [] op.kind = "reject" ->
         /\ incomplete(ts[t].state)
         /\ \A i \in 1..Len(ts[t].subTasks) : isFullyFinalised(ts, ts[t].subTasks[i])

\* a start(), complete(result), fail(err) or reject(reason) call on a frozen task
FrozenCall ==
  /\ Called
  /\ last.call.kind \in {"start", "complete", "fail", "reject"}
  /\ last.call.kind = "fail" => last.call.error # NoValue
  /\ Was.frozen

RootWasFrozen(u) == last.before[getRootTask(last.before, u)].frozen

RejectedBy(kind) ==
  CASE kind = "reject" -> "Rejected"
    [] kind = "discard" -> "Discarded"
    [] kind = "abandon" -> "Abandoned"

SubTasksWereFinalised ==
  \A i \in 1..Len(Was.subTasks) : isFullyFinalised(last.before, Was.subTasks[i])

\* a non-recursive reject(), discard() or abandon() on an incomplete parent task
\* that is not frozen
ParentRejection ==
  /\ Called
  /\ last.call.kind \in {"reject", "discard", "abandon"}
  /\ ~last.call.rec
  /\ Was.subTasks # <<>>
  /\ incomplete(Was.state)
  /\ ~Was.frozen

\* C3: a non-recursive reject(), discard() or abandon() on an incomplete parent
\* (not frozen) with a sub-task that is not fully finalised returns 0 and leaves the
\* parent's state unchanged; with every sub-task fully finalised it returns 1 and
\* puts the parent in the corresponding Rejected-family state.
C3_ParentRejectedOnlyAfterSubTasks ==
  ParentRejection =>
    /\ ~last.threw
    /\ IF SubTasksWereFinalised
       THEN last.count = 1 /\ Now.state = RejectedBy(last.call.kind)
       ELSE last.count = 0 /\ Now.state = Was.state

\* discard() on a started parent whose sub-tasks were finalised returned 1
C3_Witness ==
  /\ ParentRejection /\ last.call.kind = "discard" /\ started(Was.state)
  /\ SubTasksWereFinalised /\ last.count = 1 /\ Now.state = "Discarded"

\* a recursive reject(reason, err, true) on the root of a tree with no frozen task
RootRejection ==
  /\ Called
  /\ last.call.kind = "reject" /\ last.call.rec
  /\ isRootTask(last.before, last.t)
  /\ \A u \in 1..Len(last.before) : ~last.before[u].frozen

\* C4: after one recursive reject on the root of a tree without slaves, every task
\* that was incomplete is Rejected, every task that was finalised is unchanged, the
\* root is fully finalised, and the number returned is the number of tasks that
\* were incomplete.
C4_RecursiveRejectFinalisesTree ==
  RootRejection =>
    /\ ~last.threw
    /\ \A u \in 1..Len(tasks) :
         IF incomplete(last.before[u].state)
         THEN tasks[u].state = "Rejected"
         ELSE tasks[u] = last.before[u]
    /\ isFullyFinalised(tasks, last.t)
    /\ last.count = Cardinality({u \in 1..Len(tasks) : incomplete(last.before[u].state)})

\* Batch{A completed, B started} ended as A Completed, B Rejected, Batch Rejected
\* and the call returned 2
C4_Witness ==
  /\ RootRejection
  /\ last.before[1].state = "Started" /\ last.before[2].state = "Completed"
  /\ last.before[3].state = "Started"
  /\ tasks[1].state = "Rejected" /\ tasks[2].state = "Completed"
  /\ tasks[3].state = "Rejected" /\ last.count = 2

\* C9: fail(error, recursively) and failAs(name, error, recursively) called without
\* an error raise an error before anything is changed: every task keeps its state,
\* result and error.
C9_FailWithoutErrorChangesNothing ==
  (Called /\ last.call.kind \in {"fail", "failAs"} /\ last.call.error = NoValue) =>
    /\ last.threw
    /\ \A u \in 1..Len(tasks) :
         /\ tasks[u].state = last.before[u].state
         /\ tasks[u].result = last.before[u].result
         /\ tasks[u].error = last.before[u].error

\* a recursive fail() without an error on a started parent of started sub-tasks raised
C9_Witness ==
  /\ Called /\ last.call.kind = "fail" /\ last.call.error = NoValue /\ last.call.rec
  /\ last.t = 1 /\ \A u \in 1..3 : started(last.before[u].state) /\ ~last.before[u].frozen
  /\ last.threw /\ tasks = last.before

----------------------------------------------------------------------------
(* Properties of consecutive calls on a task (specification SpecLeaf) *)

\* the task of the last call as the call before the last found it
WasBefore == last.prev.before[last.t]

\* the last call is a start() that found the task Unstarted and not frozen
StartedNow == Called /\ last.call.kind = "start" /\ unstarted(Was.state) /\ ~Was.frozen

\* the last call is a timeout(err, {reverseAttempt: true}) that directly follows a
\* start() of the same task, which that start() found Unstarted and not frozen
TimedOutAfterStart ==
  /\ Called /\ last.n > 1
  /\ last.call.kind = "timeout" /\ last.call.reverseAttempt
  /\ ~last.call.overrideCompleted /\ ~last.call.overrideUnstarted
  /\ last.prev.call.kind = "start" /\ last.prev.t = last.t
  /\ unstarted(WasBefore.state) /\ ~WasBefore.frozen

\* C5: start() on an Unstarted task with attempts a and totalAttempts t yields
\* attempts a+1 and totalAttempts t+1; a following timeout(err, {reverseAttempt:
\* true}) puts the task in TimedOut, restores attempts to a, and leaves
\* totalAttempts at t+1.
C5_StartThenTimeoutReversesAttempt ==
  /\ StartedNow =>
       /\ ~last.threw
       /\ Now.attempts = Was.attempts + 1
       /\ Now.totalAttempts = Was.totalAttempts + 1
  /\ TimedOutAfterStart =>
       /\ ~last.threw
       /\ Now.state = "TimedOut"
       /\ Now.attempts = WasBefore.attempts
       /\ Now.totalAttempts = WasBefore.totalAttempts + 1

\* a task retried once (attempts 1 of 1) was started, then timed out with
\* reverseAttempt: its attempts are 1 of 2
C5_Witness ==
  /\ TimedOutAfterStart
  /\ WasBefore.attempts = 1 /\ WasBefore.totalAttempts = 1
  /\ Was.attempts = 2 /\ Was.totalAttempts = 2
  /\ Now.state = "TimedOut" /\ Now.attempts = 1 /\ Now.totalAttempts = 2

----------------------------------------------------------------------------
(* Properties of setSlaveTasks (specification SpecSlaves) *)

\* the last call is a setSlaveTasks(slaves) with a non-empty list that returned
SlavesSet ==
  /\ Called /\ last.call.kind = "setSlaveTasks" /\ ~last.threw
  /\ last.call.slaves # <<>>

SlaveIds == Range(last.call.slaves)

\* slave s began, and no slave began later
BeganMostRecently(s) ==
  /\ IsDef(last.before[s].began)
  /\ \A o \in SlaveIds :
       IsDef(last.before[o].began) => Val(last.before[o].began) <= Val(last.before[s].began)

\* C6: setSlaveTasks(slaves) with a non-empty slave list sets the master's attempts
\* to the minimum of the slaves' attempts, its totalAttempts to the minimum of the
\* slaves' totalAttempts, and its began and ended to those of a slave whose began
\* is the most recent (to undefined when no slave began).
C6_MasterTakesMinAttemptsAndLatestBegan ==
  SlavesSet =>
    /\ \E s \in SlaveIds : Now.attempts = last.before[s].attempts
    /\ \A s \in SlaveIds : Now.attempts <= last.before[s].attempts
    /\ \E s \in SlaveIds : Now.totalAttempts = last.before[s].totalAttempts
    /\ \A s \in SlaveIds : Now.totalAttempts <= last.before[s].totalAttempts
    /\ IF \E s \in SlaveIds : IsDef(last.before[s].began)
       THEN \E s \in SlaveIds :
              /\ BeganMostRecently(s)
              /\ Now.began = last.before[s].began
              /\ Now.ended = ended(last.before, s)
       ELSE ~IsDef(Now.began) /\ ~IsDef(Now.ended)

\* a master with attempts 1 was given a slave with attempts 2 that began last and
\* a slave with attempts 0 that never began
C6_Witness ==
  /\ SlavesSet /\ last.call.slaves = <<5, 3>> /\ last.t = 1
  /\ Was.attempts = 1
  /\ last.before[3].attempts = 2 /\ last.before[5].attempts = 0
  /\ ~IsDef(last.before[5].began)
  /\ Now.attempts = 0 /\ Now.began = last.before[3].began

\* C7: setSlaveTasks(slaves) sets the master's state to the least advanced of the
\* slaves' states (Unstarted < Started < Failed/TimedOut < Completed <
\* Rejected-family) when the master is Unstarted, and leaves the master's state
\* unchanged when the master is in any other state.
C7_UnstartedMasterTakesLeastAdvancedState ==
  SlavesSet =>
    IF unstarted(Was.state)
    THEN /\ \E s \in SlaveIds : Now.state = last.before[s].state
         /\ \A s \in SlaveIds : stateRank(Now.state) <= stateRank(last.before[s].state)
    ELSE Now.state = Was.state

\* an Unstarted master was given a Completed slave and then a Failed slave and
\* became Failed
C7_Witness ==
  /\ SlavesSet /\ last.call.slaves = <<3, 5>> /\ last.t = 1
  /\ unstarted(Was.state)
  /\ last.before[3].state = "Completed" /\ last.before[5].state = "Failed"
  /\ Now.state = "Failed"

----------------------------------------------------------------------------
(* Properties of revival (specification SpecRevive) *)

\* the last call is an updateFromPriorVersion(oldTask) that returned, made on a
\* task that was Unstarted and had never been attempted
Revived ==
  /\ Called /\ last.call.kind = "updateFromPriorVersion" /\ ~last.threw
  /\ last.call.other # 0
  /\ unstarted(Was.state) /\ Was.totalAttempts = 0

Old == last.before[last.call.other]

\* C8, as the specification states it: revival from a prior Completed instance with
\* result R yields state Completed and result R; from a prior Failed instance with
\* error E it yields state Failed, error E and result undefined.
C8_RevivalKeepsErrorOfFailed ==
  Revived =>
    /\ Old.state = "Completed" => Now.state = "Completed" /\ Now.result = Old.result
    /\ Old.state = "Failed" =>
         Now.state = "Failed" /\ Now.error = Old.error /\ Now.result = NoValue

\* C8, as the code has it: revival from a prior Completed instance with result R
\* yields state Completed and result R; from a prior Failed instance with error E
\* it yields state Failed, result undefined and error undefined (the error is
\* copied from a prior instance in a Rejected-family state only).
C8_RevivalDropsErrorOfFailed ==
  Revived =>
    /\ Old.state = "Completed" => Now.state = "Completed" /\ Now.result = Old.result
    /\ Old.state = "Failed" =>
         Now.state = "Failed" /\ Now.error = NoValue /\ Now.result = NoValue

\* the fresh Batch was revived from a prior Batch that was Failed with error E1
C8_Witness ==
  /\ Revived /\ last.t = 4 /\ last.call.other = 1
  /\ Old.state = "Failed" /\ Old.error = "E1"
  /\ Now.state = "Failed" /\ Now.error = NoValue /\ Now.result = NoValue

----------------------------------------------------------------------------
(* Properties of the definition calls (specification SpecDefs) *)

\* the names of the sub-definitions of definition d in the heap ds
SubDefNames(ds, d) == DefNames(ds, ds[d].subTaskDefs)

\* the last call is a defineSubTask(name, execute) with default settings, a name
\* that is not blank and an execute that is a function or undefined
SubTaskDefined ==
  /\ Called /\ last.call.kind = "defineSubTask"
  /\ ~last.call.skipAddToParent
  /\ ~isBlank(last.call.name)
  /\ last.call.execute # NotAFunction

\* C10: defineSubTask with the name of an existing sub-definition fails and leaves
\* the sub-definition list unchanged; with a new name it succeeds and the name is
\* appended to the list (for {a, b}: 'a' fails, 'c' gives [a, b, c]).
C10_DefineSubTaskRejectsDuplicateNames ==
  SubTaskDefined =>
    IF trim(last.call.name) \in Range(SubDefNames(last.before, last.t))
    THEN last.threw /\ defs = last.before
    ELSE /\ ~last.threw
         /\ SubDefNames(defs, last.t)
              = Append(SubDefNames(last.before, last.t), trim(last.call.name))

\* after defineSubTask('a') failed on the sub-definitions [a, b], defineSubTask('c')
\* made them [a, b, c]
C10_Witness ==
  /\ SubTaskDefined /\ last.n = 2 /\ last.t = 1
  /\ last.prev.call.kind = "defineSubTask" /\ last.prev.t = 1
  /\ last.prev.call.name = "a" /\ last.prev.threw
  /\ SubDefNames(last.before, 1) = <<"a", "b">>
  /\ last.call.name = "c"
  /\ SubDefNames(defs, 1) = <<"a", "b", "c">>

\* the last call is a defineSubTasks(names) with default settings
SubTasksDefined ==
  /\ Called /\ last.call.kind = "defineSubTasks"
  /\ ~last.call.skipAddToParent

Trimmed(names) == [i \in 1..Len(names) |-> trim(names[i])]

PairwiseDistinct(names) ==
  \A i, j \in 1..Len(names) : i # j => names[i] # names[j]

\* a name of the batch is blank, or the existing names and the trimmed names of the
\* batch are not pairwise distinct
BadBatch ==
  \/ \E i \in 1..Len(last.call.names) : isBlank(last.call.names[i])
  \/ ~PairwiseDistinct(SubDefNames(last.before, last.t) \o Trimmed(last.call.names))

\* C19: defineSubTasks(names) with a blank name, or with names that together with
\* the existing sub-definition names are not pairwise distinct after trimming,
\* fails and leaves the parent's list of sub-definitions exactly as before;
\* otherwise all names are appended in the given order as managed sub-definitions.
C19_DefineSubTasksIsAllOrNothing ==
  SubTasksDefined =>
    IF BadBatch
    THEN /\ last.threw
         /\ defs[last.t].subTaskDefs = last.before[last.t].subTaskDefs
    ELSE /\ ~last.threw
         /\ SubDefNames(defs, last.t)
              = SubDefNames(last.before, last.t) \o Trimmed(last.call.names)
         /\ \A i \in (Len(last.before[last.t].subTaskDefs) + 1)..
                       Len(defs[last.t].subTaskDefs) :
              defs[defs[last.t].subTaskDefs[i]].managed

\* defineSubTasks(['c', ' a ']) on the sub-definitions [a, b] failed and did not add
\* c: the list is still [a, b]
C19_Witness ==
  /\ SubTasksDefined /\ last.t = 1 /\ last.call.names = <<"c", " a ">>
  /\ SubDefNames(last.before, 1) = <<"a", "b">>
  /\ last.threw /\ SubDefNames(defs, 1) = <<"a", "b">>

----------------------------------------------------------------------------
(* Properties of the hierarchies (specification SpecBuild) *)

\* the nodes met from node n down through the lists `kids`, to a depth of `fuel`
RECURSIVE Descend(_, _, _), DescendAll(_, _, _)
Descend(kids, n, fuel) ==
  IF fuel = 0 THEN <<n>> ELSE <<n>> \o DescendAll(kids, kids[n], fuel - 1)
DescendAll(kids, ns, fuel) ==
  IF ns = <<>> THEN <<>>
  ELSE Descend(kids, Head(ns), fuel) \o DescendAll(kids, Tail(ns), fuel)

\* following the parent links from n reaches a root within `fuel` steps
RECURSIVE Ascends(_, _, _)
Ascends(parentOf, n, fuel) ==
  \/ parentOf[n] = 0
  \/ fuel > 0 /\ Ascends(parentOf, parentOf[n], fuel - 1)

\* no node appears twice in the hierarchy rooted at n, and n has a root
IsTreeAt(kids, parentOf, n) ==
  /\ isDistinct(Descend(kids, n, Cardinality(DOMAIN kids)))
  /\ Ascends(parentOf, n, Cardinality(DOMAIN kids))

TaskKids == [t \in TaskIds |-> tasks[t].subTasks]
TaskParents == [t \in TaskIds |-> tasks[t].parent]
DefKids == [d \in DefIds |-> defs[d].subTaskDefs]
DefParents == [d \in DefIds |-> defs[d].parent]

----------------------------------------------------------------------------
(* Properties of a master and its slaves (specifications SpecMaster and      *)
(* SpecSlaves)                                                               *)

\* the first call was a setSlaveTasks(S) on the master (task 1) that returned
MasterSet ==
  /\ last.n > 0
  /\ IF last.n = 1 THEN last.call.kind = "setSlaveTasks" /\ ~last.threw
     ELSE last.prev.call.kind = "setSlaveTasks" /\ ~last.prev.threw

\* the heap the setSlaveTasks(S) found, and S
BeforeSet == IF last.n = 1 THEN last.before ELSE last.prev.before
SetSlaves == IF last.n = 1 THEN last.call.slaves ELSE last.prev.call.slaves

\* the calls on a master that the ripple is stated of
MasterCallKinds ==
  {"start", "complete", "succeed", "timeout", "fail", "reject", "discard", "abandon",
   "reset"}

\* C12: after setSlaveTasks(S) on an Unstarted master, and after any following
\* start, complete, timeout, fail, reject, discard, abandon or reset call on the
\* master, the master's state is not more advanced (in the order of the states) than
\* the state of any slave in S.
C12_MasterNeverOverstatesProgress ==
  (/\ MasterSet
   /\ unstarted(BeforeSet[1].state)
   /\ last.n > 1 => last.call.kind \in MasterCallKinds \ {"succeed"})
  => \A i \in 1..Len(SetSlaves) :
       stateRank(tasks[1].state) <= stateRank(tasks[SetSlaves[i]].state)

\* the lists that hold the elements of `seq` in another order
Reordered(seq) ==
  {[i \in 1..Len(seq) |-> seq[f[i]]] : f \in Permutations(1..Len(seq))}

\* what setSlaveTasks derives for a master
SameView(a, b) ==
  /\ a.attempts = b.attempts /\ a.totalAttempts = b.totalAttempts
  /\ a.began = b.began /\ a.ended = b.ended /\ a.took = b.took
  /\ a.state = b.state

\* C13: setSlaveTasks(S) gives the master the same attempts, totalAttempts, began,
\* ended, took and state as setSlaveTasks on the same master with the slaves of S in
\* any other order, also when slaves share a began time or have states of equal rank.
C13_MasterViewIsOrderIndependent ==
  SlavesSet =>
    \A other \in Reordered(last.call.slaves) :
      SameView(Now, setSlaveTasks(last.before, last.t, other).ts[last.t])

\* the last call is one of the rippling calls, made on the master after its
\* setSlaveTasks(S)
MasterCall ==
  /\ MasterSet /\ last.n = 2 /\ last.t = 1
  /\ last.call.kind \in MasterCallKinds

\* the heap that the last call, invoked on task s instead, would have left
Direct(s) == Call(last.before, s, last.call).ts

SameState(a, b) == a.state = b.state /\ a.result = b.result /\ a.error = b.error

\* slave s, and with a recursive call (reset always is) each of its sub-tasks, is
\* in the state that the call invoked on s itself would have left it in
RippledTo(s) ==
  /\ SameState(tasks[s], Direct(s)[s])
  /\ (last.call.rec \/ last.call.kind = "reset") =>
       \A i \in 1..Len(last.before[s].subTasks) :
         SameState(tasks[last.before[s].subTasks[i]],
                   Direct(s)[last.before[s].subTasks[i]])

----------------------------------------------------------------------------
(* Properties of a revival (SpecRevive) *)

\* the last call was updateFromPriorVersion(old) with a task `old`, and it returned
RevivedFromTask ==
  /\ Called /\ last.call.kind = "updateFromPriorVersion" /\ ~last.threw
  /\ last.call.other \in 1..Len(last.before)

RECURSIVE Carries(_, _)

\* every sub-task of the prior task `old`, at every depth, has a sub-task of the
\* same name at the same place under task `new`, in the prior sub-task's state
Carries(old, new) ==
  \A i \in 1..Len(last.before[old].subTasks) :
    /\ getSubTask(tasks, new, last.before[last.before[old].subTasks[i]].name) # 0
    /\ tasks[getSubTask(tasks, new,
                        last.before[last.before[old].subTasks[i]].name)].state
         = last.before[last.before[old].subTasks[i]].state
    /\ Carries(last.before[old].subTasks[i],
               getSubTask(tasks, new, last.before[last.before[old].subTasks[i]].name))

\* C15: after newTask.updateFromPriorVersion(oldTask) has returned, every sub-task
\* of oldTask, at every depth, has a sub-task of the same name at the same path
\* under newTask that carries the old sub-task's state, also when its name is not
\* among the sub-tasks that newTask's definition defines.
C15_RevivalKeepsPriorSubTasks ==
  RevivedFromTask => Carries(last.call.other, last.t)

\* the new Batch{A} was revived from the prior Batch{A{x}, B}: copies of B (under
\* Batch) and of x (under A) were made, and x's copy is Completed as x was
C15_Witness ==
  /\ RevivedFromTask /\ last.t = 4 /\ last.call.other = 1
  /\ Len(last.before) = 6 /\ Len(tasks) = 8
  /\ getSubTask(last.before, 4, "B") = 0 /\ getSubTask(tasks, 4, "B") # 0
  /\ getSubTask(last.before, 5, "x") = 0 /\ getSubTask(tasks, 5, "x") # 0
  /\ last.before[6].state = "Completed"
  /\ tasks[getSubTask(tasks, 5, "x")].state = "Completed"

\* the counters of task t before the last call: a task that the call constructed
\* had none
AttemptsBefore(t) == IF t \in 1..Len(last.before) THEN last.before[t].attempts ELSE 0
TotalAttemptsBefore(t) ==
  IF t \in 1..Len(last.before) THEN last.before[t].totalAttempts ELSE 0

\* the sub-task of task `new` that has the name of the prior task o
SameNamed(new, o) == getSubTask(tasks, new, last.before[o].name)

RECURSIVE AttemptsAdded(_, _)

\* task `new` and its same-named sub-tasks have the counters they had plus the
\* counters of the prior task `old` and of its sub-tasks
AttemptsAdded(old, new) ==
  /\ tasks[new].attempts = AttemptsBefore(new) + last.before[old].attempts
  /\ tasks[new].totalAttempts
       = TotalAttemptsBefore(new) + last.before[old].totalAttempts
  /\ \A i \in 1..Len(last.before[old].subTasks) :
       SameNamed(new, last.before[old].subTasks[i]) # 0 =>
         AttemptsAdded(last.before[old].subTasks[i],
                       SameNamed(new, last.before[old].subTasks[i]))

\* C16: after updateFromPriorVersion(old) has returned, the receiver's attempts are
\* its attempts before plus the prior task's attempts, and its totalAttempts are its
\* totalAttempts before plus the prior task's totalAttempts; the same holds for
\* every same-named sub-task.
C16_RevivalAddsAttempts ==
  RevivedFromTask => AttemptsAdded(last.call.other, last.t)

\* a Started receiver (1 attempt) was revived from a prior task with 1 attempt and
\* has 2; its sub-task A had none and has the 1 attempt of the prior A
C16_Witness ==
  /\ RevivedFromTask /\ last.t = 4 /\ last.call.other = 1
  /\ last.before[4].attempts = 1 /\ last.before[1].attempts = 1
  /\ tasks[4].attempts = 2 /\ tasks[4].totalAttempts = 2
  /\ last.before[5].attempts = 0 /\ last.before[2].attempts = 1
  /\ tasks[5].attempts = 1

\* the last call was updateFromPriorVersion
RevivalCalled == Called /\ last.call.kind = "updateFromPriorVersion"

\* the argument of the last call was a task of another name than the receiver's
MismatchedPriorVersion ==
  /\ last.call.other \in 1..Len(last.before)
  /\ last.before[last.call.other].name # Was.name

\* the receiver and the tasks below it are as they were before the last call: state,
\* result, error, attempts, totalAttempts, began, took, ended and sub-tasks
ReceiverUnchanged ==
  /\ Len(tasks) = Len(last.before)
  /\ \A u \in Range(Hierarchy(last.before, last.t)) : tasks[u] = last.before[u]

\* C17: updateFromPriorVersion(old) with a task `old` of another name than the
\* receiver's, or with an `old` that is not a task, raises an error and leaves the
\* receiver's state, result, error, attempts, totalAttempts, timing and sub-tasks
\* unchanged; updateFromPriorVersion(undefined) returns the receiver unchanged.
C17_MismatchedRevivalChangesNothing ==
  RevivalCalled =>
    /\ (MismatchedPriorVersion \/ last.call.other = NonTask) =>
         last.threw /\ ReceiverUnchanged
    /\ last.call.other = 0 => ~last.threw /\ ReceiverUnchanged

\* the unfrozen, Unstarted new Batch was asked to revive from the prior, Completed
\* sub-task A: the call raised
C17_Witness ==
  /\ RevivalCalled /\ MismatchedPriorVersion /\ last.threw
  /\ last.t = 4 /\ last.call.other = 2
  /\ ~Was.frozen /\ unstarted(Was.state) /\ last.before[2].state = "Completed"
  /\ ReceiverUnchanged

----------------------------------------------------------------------------
(* Properties of the construction of tasks (SpecBuild) *)

\* the last call was new Task(taskDef, parent, ...) with a definition
NewTaskCalled == last.n > 0 /\ last.call.kind = "newTask" /\ last.call.other # 0

\* the definition and the parent given to the constructor (0: no parent)
GivenDef == defs[last.call.other]
GivenParent == last.t

\* no task was linked into any tree: the heap of tasks is as it was
NothingLinked == tasks = last.before

\* C18, as the specification states it: the construction fails when a
\* sub-definition is instantiated without a parent instance and when a root
\* definition is instantiated with a parent instance, and then no instance is
\* linked into any tree.
C18_MismatchedParentFails ==
  (/\ NewTaskCalled
   /\ \/ GivenDef.parent # 0 /\ GivenParent = 0
      \/ GivenDef.parent = 0 /\ GivenParent # 0)
    => last.threw /\ NothingLinked

\* C18, as the code has it: the construction fails when a non-executable (managed)
\* definition is instantiated without a parent instance, and then no instance is
\* linked into any tree; an executable sub-definition instantiated without a parent
\* yields a root task, and a root definition instantiated with a parent that has
\* no sub-task of its name yields a sub-task of that parent.
C18_ManagedTopLevelFails ==
  NewTaskCalled =>
    /\ (GivenParent = 0 /\ GivenDef.managed) => last.threw /\ NothingLinked
    /\ (GivenParent = 0 /\ ~GivenDef.managed /\ GivenDef.parent # 0) =>
         ~last.threw /\ tasks[last.id].parent = 0
    /\ (/\ GivenParent # 0 /\ GivenDef.parent = 0
        /\ areSubTaskNamesDistinct(last.before, GivenParent, <<GivenDef.name>>)) =>
         /\ ~last.threw /\ tasks[last.id].parent = GivenParent
         /\ getSubTask(tasks, GivenParent, GivenDef.name) = last.id

\* new Task(A's definition) without a parent raised: A is a managed sub-definition
C18_Witness ==
  /\ NewTaskCalled /\ GivenParent = 0 /\ GivenDef.managed /\ GivenDef.parent # 0
  /\ last.threw /\ NothingLinked /\ Len(tasks) > 0

\* a task as the constructor leaves it
IsFresh(task) ==
  /\ unstarted(task.state) /\ task.attempts = 0 /\ task.totalAttempts = 0
  /\ task.result = NoValue /\ task.error = NoValue
  /\ task.slaveTasks = <<>> /\ ~task.frozen

RECURSIVE Mirrors(_, _)

\* task t and the tasks below it are fresh and mirror definition d and the
\* definitions below it: one sub-task per sub-definition, of its name, in its place
Mirrors(t, d) ==
  /\ tasks[t].name = defs[d].name /\ tasks[t].definition = d
  /\ IsFresh(tasks[t])
  /\ Len(tasks[t].subTasks) = Len(defs[d].subTaskDefs)
  /\ \A i \in 1..Len(defs[d].subTaskDefs) :
       /\ tasks[tasks[t].subTasks[i]].parent = t
       /\ tasks[tasks[t].subTasks[i]].name = defs[defs[d].subTaskDefs[i]].name
       /\ Mirrors(tasks[t].subTasks[i], defs[d].subTaskDefs[i])

\* C20: a construction that returned created exactly one task per definition of
\* the tree of the given definition, recursively, with the same names in the same
\* order; every created task is Unstarted with attempts 0, totalAttempts 0, no
\* result, no error, no slaves, and is not frozen.
C20_ConstructionMirrorsDefinition ==
  (NewTaskCalled /\ ~last.threw) =>
    /\ Mirrors(last.id, last.call.other)
    /\ Len(tasks) = Len(last.before) + Len(DefHierarchy(defs, last.call.other))
    /\ \A t \in (Len(last.before) + 1)..Len(tasks) :
         IsFresh(tasks[t]) /\ t \in Range(Hierarchy(tasks, last.id))

\* Batch was constructed after a sub-definition was added below A: the new tree is
\* Batch{A{...}, B}, four fresh tasks over three levels
C20_Witness ==
  /\ NewTaskCalled /\ ~last.threw /\ last.call.other = 1 /\ GivenParent = 0
  /\ Len(defs[2].subTaskDefs) = 1
  /\ Len(tasks) = Len(last.before) + 4
  /\ TaskNames(tasks, tasks[last.id].subTasks) = <<"A", "B">>
  /\ Len(tasks[tasks[last.id].subTasks[1]].subTasks) = 1
  /\ Mirrors(last.id, 1)

----------------------------------------------------------------------------
(* Properties of the attempts (SpecAttempts) *)

\* no task that existed before the last call has a lower totalAttempts after it
TotalAttemptsNotLowered ==
  \A u \in 1..Len(last.before) : tasks[u].totalAttempts >= last.before[u].totalAttempts

\* C21, as the specification states it: for every task and every operation, among
\* them setSlaveTasks and updateFromPriorVersion, totalAttempts after the operation
\* is greater than or equal to totalAttempts before it.
C21_TotalAttemptsIsMonotonic ==
  Called => TotalAttemptsNotLowered

\* the least totalAttempts of the slaves of task u
LeastTotalOfSlaves(u) ==
  CHOOSE m \in {tasks[tasks[u].slaveTasks[i]].totalAttempts :
                  i \in 1..Len(tasks[u].slaveTasks)} :
    \A i \in 1..Len(tasks[u].slaveTasks) :
      m <= tasks[tasks[u].slaveTasks[i]].totalAttempts

\* C21, as the code has it: the same for every operation but setSlaveTasks, which
\* sets the totalAttempts of the master, and of each of its sub-tasks that gets the
\* slaves' same-named sub-tasks as slaves, to the least totalAttempts of its
\* slaves, whatever it was before.
C21_TotalAttemptsIsMonotonicButForSlaves ==
  Called =>
    IF last.call.kind # "setSlaveTasks" THEN TotalAttemptsNotLowered
    ELSE \A u \in 1..Len(last.before) :
           tasks[u].totalAttempts # last.before[u].totalAttempts =>
             /\ u \in Range(Hierarchy(last.before, last.t))
             /\ tasks[u].slaveTasks # <<>>
             /\ tasks[u].totalAttempts = LeastTotalOfSlaves(u)

\* after a setSlaveTasks, decrementAttempts lowered the attempts of a task from 1
\* to 0 and left its totalAttempts at 1
C21_Witness ==
  /\ Called /\ last.n = 2 /\ last.call.kind = "decrementAttempts"
  /\ last.prev.call.kind = "setSlaveTasks"
  /\ Was.attempts = 1 /\ Now.attempts = 0
  /\ Was.totalAttempts = 1 /\ Now.totalAttempts = 1

\* C22: in every reachable state, a task has a result only if its state is in the
\* Completed family, and an error only if its state is TimedOut, in the Failed
\* family or in the Rejected family.
C22_ResultAndErrorFitTheState ==
  \A u \in TaskIds :
    /\ tasks[u].result # NoValue => completed(tasks[u].state)
    /\ tasks[u].error # NoValue =>
         timedOut(tasks[u].state) \/ failed(tasks[u].state) \/ rejected(tasks[u].state)

\* fail(E1) on a Completed task with result R1 made it Failed, cleared the result
\* and set the error
C22_Witness ==
  /\ Called /\ last.call.kind = "fail" /\ ~last.threw
  /\ Was.state = "Completed" /\ Was.result = "R1" /\ Was.error = NoValue
  /\ Now.state = "Failed" /\ Now.result = NoValue /\ Now.error = "E1"

----------------------------------------------------------------------------
(* Properties of the registry (SpecRegistry) *)

\* the last call was isAnyTaskNotFullyFinalised(tasksByName)
Asked == last.n > 0 /\ last.call.kind = "isAnyTaskNotFullyFinalised"

\* the tasks stored in the registry, under any key
Stored ==
  IF tasksByName = Undefined THEN {}
  ELSE {Val(tasksByName)[k] : k \in DOMAIN Val(tasksByName)} \cap TaskIds

\* a stored task, or a task below one, is not in a finalised state
SomeStoredTaskIsUnfinished ==
  \E t \in Stored : \E u \in Range(Hierarchy(tasks, t)) :
    ~(tasks[u].state \in CompletedStates \cup RejectedStates)

\* C23: isAnyTaskNotFullyFinalised(byName) returns true if and only if a task
\* stored in the registry under any key, or a descendant of such a task, is not
\* in a state of the Completed or Rejected family; it returns false for an empty
\* and for an undefined registry.
C23_AnswersWhetherAnyTaskIsUnfinished ==
  Asked => (last.answer <=> SomeStoredTaskIsUnfinished)

\* the registry holds the Completed Batch under key k, and an object that is no
\* task; sub-task B is Unstarted: the answer was true
C23_Witness ==
  /\ Asked /\ last.answer
  /\ tasksByName # Undefined /\ DOMAIN Val(tasksByName) = {"k", "A"}
  /\ Val(tasksByName)["k"] = 1 /\ Val(tasksByName)["A"] = NonTask
  /\ tasks[1].state = "Completed" /\ tasks[2].state = "Completed"
  /\ tasks[3].state = "Unstarted"

----------------------------------------------------------------------------
(* Properties of freeze (SpecFreeze) *)

RECURSIVE FreezeReach(_, _)

\* task t, its descendants, its slaves and theirs, and the slaves of its
\* descendants and theirs
FreezeReach(ts, t) ==
  {t} \cup UNION {FreezeReach(ts, ts[t].subTasks[i]) : i \in 1..Len(ts[t].subTasks)}
      \cup UNION {FreezeReach(ts, ts[t].slaveTasks[i]) : i \in 1..Len(ts[t].slaveTasks)}

\* the last call was t.freeze()
FreezeCalled == Called /\ last.call.kind = "freeze"

\* C24: after t.freeze(), isFrozen() is true for t, for every descendant of t and
\* for every slave (and every descendant of a slave) of t and of its descendants;
\* freeze() on a task that is frozen already changes nothing.
C24_FreezeReachesTreeAndSlaves ==
  FreezeCalled =>
    /\ \A u \in FreezeReach(tasks, last.t) : isFrozen(tasks, u)
    /\ Was.frozen => tasks = last.before

----------------------------------------------------------------------------
(* Properties of the retry cycle (SpecRetry) *)

\* the number of cycles that are complete
CyclesDone == last.n \div 4

\* the task is Discarded exactly from the end of cycle number max on, and is
\* incomplete until then
DiscardedFromCycleMax ==
  IF last.n >= 4 * last.call.max THEN tasks[1].state = "Discarded"
  ELSE incomplete(tasks[1].state)

\* C25: for a task without sub-tasks and a max >= 1, repeating the cycle reset();
\* start(); fail(err); discardIfOverAttempted(max) leaves the task incomplete after
\* each of the first max - 1 cycles, discards it in exactly cycle number max, and
\* it stays Discarded under further cycles: it is eventually Discarded for good.
C25_RetryCycleDiscardsAtMax ==
  [](DiscardedFromCycleMax) /\ <>[](tasks[1].state = "Discarded")

\* with max = 3, the task was Failed after two cycles and three attempts into the
\* third, and the third discardIfOverAttempted(3) discarded it
C25_Witness ==
  /\ last.n = 12 /\ last.call.max = 3 /\ CyclesDone = 3
  /\ last.call.kind = "discardIfOverAttempted" /\ last.count = 1
  /\ Was.state = "Failed" /\ Was.attempts = 3
  /\ tasks[1].state = "Discarded"

----------------------------------------------------------------------------
(* Properties of dynamic sub-tasks (SpecDynamic) *)

\* the last call was createSubTask or getOrCreateSubTask
SubTaskAsked ==
  /\ last.n > 0
  /\ last.call.kind \in {"createSubTask", "getOrCreateSubTask"}

\* the list of sub-definitions of the definition of the receiver, before and after
ListedBefore == last.defsBefore[last.before[last.t].definition].subTaskDefs
ListedNow == defs[last.before[last.t].definition].subTaskDefs

\* the call constructed the task it returned
MadeNew == ~last.threw /\ last.id > Len(last.before)

----------------------------------------------------------------------------
(* Properties of the rows of the state machine.  The rows are read under the *)
(* heading of their table: a frozen task is not changed by any of them.      *)

StartCalled == Called /\ last.call.kind = "start"

\* C27 (specification SpecLeaf): start() changes a task only when it is Unstarted
\* (and not frozen): then the state becomes Started, attempts and totalAttempts each
\* increase by exactly 1 and began is set to the start time; on a task in any other
\* state start() leaves state, attempts and totalAttempts (and every other field)
\* unchanged, so a start() that directly follows a start() of the same task changes
\* nothing.
C27_StartOnlyWhenUnstarted ==
  StartCalled =>
    /\ IF unstarted(Was.state) /\ ~Was.frozen
       THEN /\ Now.state = "Started"
            /\ Now.attempts = Was.attempts + 1
            /\ Now.totalAttempts = Was.totalAttempts + 1
            /\ Now.began = Some(last.call.time)
       ELSE Now = Was
    /\ (last.n > 1 /\ last.prev.call.kind = "start" /\ last.prev.t = last.t) =>
         Now = Was

\* start() was called twice in a row on a fresh task: the first call made it
\* Started with attempts 1 of 1 and began set, the second changed nothing
C27_Witness ==
  /\ StartCalled /\ last.n = 2
  /\ last.prev.call.kind = "start" /\ last.prev.t = last.t
  /\ unstarted(WasBefore.state) /\ ~WasBefore.frozen /\ WasBefore.attempts = 0
  /\ Was.state = "Started" /\ Was.attempts = 1 /\ Was.totalAttempts = 1
  /\ Was.began = Some(last.prev.call.time)
  /\ Now = Was

CompleteCalled == Called /\ last.call.kind \in {"complete", "succeed"}

\* the state that complete and succeed give
CompletedAs(kind) == IF kind = "complete" THEN "Completed" ELSE "Succeeded"

\* C28 (specification Spec): complete(result, opts) and succeed(result, opts) change
\* a task if and only if it is incomplete (Unstarted, Started, Failed or TimedOut)
\* and either it is not TimedOut or overrideTimedOut is set (and it is not frozen);
\* then the state becomes Completed or Succeeded, the result is stored and the error
\* is cleared; otherwise state, result and error (and every other field) are
\* unchanged.
C28_CompleteOnlyWhenIncomplete ==
  CompleteCalled =>
    /\ incomplete(Was.state) <=>
         (unstarted(Was.state) \/ started(Was.state) \/ failed(Was.state)
          \/ timedOut(Was.state))
    /\ IF /\ incomplete(Was.state)
          /\ (~timedOut(Was.state) \/ last.call.overrideTimedOut)
          /\ ~Was.frozen
       THEN /\ Now # Was
            /\ Now.state = CompletedAs(last.call.kind)
            /\ Now.result = last.call.result
            /\ Now.error = NoValue
       ELSE Now = Was

\* complete(R1, {overrideTimedOut: true}) on a task that had timed out with error E1
\* made it Completed with result R1 and no error
C28_Witness ==
  /\ CompleteCalled /\ last.call.kind = "complete" /\ last.call.overrideTimedOut
  /\ timedOut(Was.state) /\ Was.error = "E1" /\ ~Was.frozen
  /\ Now.state = "Completed" /\ Now.result = "R1" /\ Now.error = NoValue

TimeoutCalled == Called /\ last.call.kind = "timeout"

\* timeout was called without options
NoTimeoutOpts ==
  /\ ~last.call.overrideCompleted /\ ~last.call.overrideUnstarted
  /\ ~last.call.reverseAttempt

\* C29 (specification Spec): timeout(err, opts) changes a task if and only if it is
\* not already TimedOut, Rejected-family or Failed, and it is not Completed or
\* overrideCompleted is set, and it is not Unstarted or overrideUnstarted is set (and
\* it is not frozen); so with no options a timeout takes effect only on a Started
\* task.  When it takes effect the state becomes TimedOut, the result is cleared
\* and the error is set to err.
C29_TimeoutOnlyWhenAllowed ==
  TimeoutCalled =>
    /\ IF /\ ~timedOut(Was.state) /\ ~rejected(Was.state) /\ ~failed(Was.state)
          /\ (~completed(Was.state) \/ last.call.overrideCompleted)
          /\ (~unstarted(Was.state) \/ last.call.overrideUnstarted)
          /\ ~Was.frozen
       THEN /\ Now # Was
            /\ Now.state = "TimedOut"
            /\ Now.result = NoValue
            /\ Now.error = last.call.error
       ELSE Now = Was
    /\ (NoTimeoutOpts /\ Now # Was) => started(Was.state)
    /\ (NoTimeoutOpts /\ started(Was.state) /\ ~Was.frozen) => Now # Was

\* timeout(E1, {overrideCompleted: true}) on a task Completed with result R1 made it
\* TimedOut with error E1 and no result
C29_Witness ==
  /\ TimeoutCalled /\ last.call.overrideCompleted
  /\ completed(Was.state) /\ Was.result = "R1" /\ ~Was.frozen
  /\ Now.state = "TimedOut" /\ Now.result = NoValue /\ Now.error = "E1"

FailCalled == Called /\ last.call.kind = "fail" /\ last.call.error # NoValue

\* C30 (specification Spec): fail(err) with a non-empty error changes a task to
\* Failed, clearing the result and setting error = err, if and only if the task is
\* not TimedOut, not Rejected-family and not already Failed (and is not frozen); a
\* Completed task becomes Failed and loses its result, while TimedOut,
\* Rejected-family and Failed tasks are left unchanged.
C30_FailOnlyWhenAllowed ==
  FailCalled =>
    /\ IF /\ ~timedOut(Was.state) /\ ~rejected(Was.state) /\ ~failed(Was.state)
          /\ ~Was.frozen
       THEN /\ Now # Was
            /\ Now.state = "Failed"
            /\ Now.result = NoValue
            /\ Now.error = last.call.error
       ELSE Now = Was
    /\ (completed(Was.state) /\ ~Was.frozen) =>
         Now.state = "Failed" /\ Now.result = NoValue

\* fail(E1) on a task Completed with result R1 made it Failed with error E1 and no
\* result
C30_Witness ==
  /\ FailCalled /\ completed(Was.state) /\ Was.result = "R1" /\ ~Was.frozen
  /\ Now.state = "Failed" /\ Now.result = NoValue /\ Now.error = "E1"

----------------------------------------------------------------------------
(* Properties of discardIfOverAttempted (specification SpecAttempts) *)

DiscardAsked == Called /\ last.call.kind = "discardIfOverAttempted"

\* the tasks of the tree of the receiver whose state the last call changed
StateChangedBelow ==
  {u \in Range(Hierarchy(last.before, last.t)) : tasks[u].state # last.before[u].state}

\* the guard of the call's own step: the sub-tasks are looked at when the step is
\* taken, after a recursive call has discarded those it could
OverAttemptedGuard ==
  /\ incomplete(Was.state)
  /\ Was.attempts >= last.call.max
  /\ \A i \in 1..Len(Was.subTasks) : isFullyFinalised(tasks, Was.subTasks[i])

\* C31: discardIfOverAttempted(max) puts a task in the Discarded state, returning a
\* count that includes it, if and only if the task is incomplete, its attempts >=
\* max and every one of its sub-tasks is fully finalised (and it is not frozen and
\* the call returns); a task with attempts < max, a finalised task, or a task with an
\* unfinalised sub-task is left unchanged.  The count is the number of tasks of the
\* receiver's tree that were discarded.
C31_DiscardsExactlyTheOverAttempted ==
  DiscardAsked =>
    /\ IF OverAttemptedGuard /\ ~Was.frozen /\ ~last.threw
       THEN /\ Now.state = "Discarded" /\ Now.result = NoValue /\ Now.error = NoValue
            /\ last.t \in StateChangedBelow
            /\ last.count = Cardinality(StateChangedBelow)
       ELSE Now = Was
    /\ (~last.call.rec /\ ~isMasterTask(last.before, last.t)) =>
         /\ last.threw <=> (OverAttemptedGuard /\ Was.frozen)
         /\ \A i \in 1..Len(Was.subTasks) :
              isFullyFinalised(tasks, Was.subTasks[i])
                <=> isFullyFinalised(last.before, Was.subTasks[i])
    /\ ~last.threw => last.count = Cardinality(StateChangedBelow)

\* discardIfOverAttempted(1) on the Started Batch with attempts 1, whose sub-task A
\* had been completed, discarded it and returned 1
C31_Witness ==
  /\ DiscardAsked /\ last.t = 1 /\ ~last.call.rec /\ last.call.max = 1
  /\ Was.state = "Started" /\ Was.attempts = 1
  /\ completed(last.before[2].state)
  /\ Now.state = "Discarded" /\ last.count = 1

----------------------------------------------------------------------------
(* Properties of reset (specification SpecReset) *)

ResetCalled == Called /\ last.call.kind = "reset"

\* the tasks below the receiver
Below == Range(Hierarchy(last.before, last.t)) \ {last.t}

\* task u is as reset leaves a task it changes
IsReset(u) ==
  /\ tasks[u].state = "Unstarted"
  /\ tasks[u].result = NoValue
  /\ tasks[u].error = NoValue

\* the receiver was a root super-task whose tree was not fully finalised
UnfinalisedRootSuperTask ==
  /\ isRootTask(last.before, last.t) /\ isSuperTask(last.before, last.t)
  /\ ~isFullyFinalised(last.before, last.t)

\* reset changes task u of the tree of the receiver
ResetChanges(u) ==
  IF u = last.t
  THEN incomplete(Was.state) \/ (completed(Was.state) /\ UnfinalisedRootSuperTask)
  ELSE incomplete(last.before[u].state)

\* no task of the tree of the receiver was frozen
NoneFrozen == \A u \in Range(Hierarchy(last.before, last.t)) : ~last.before[u].frozen

\* the sub-tasks are as reset, applied to each, leaves them
SubTasksReset ==
  \A u \in Below : IF ResetChanges(u) THEN IsReset(u) ELSE tasks[u] = last.before[u]

----------------------------------------------------------------------------
(* Properties of getOrCreateSubTask (specification SpecDynamic) *)

GetOrCreateAsked == last.n > 0 /\ last.call.kind = "getOrCreateSubTask"

\* the sub-task of the receiver that the call found under the given name (0: none)
Found == getSubTask(last.before, last.t, last.call.name)

\* the sub-tasks of the receiver that have the given name, trimmed
Named ==
  {i \in 1..Len(Now.subTasks) : tasks[Now.subTasks[i]].name = trim(last.call.name)}

\* the call returned a task made by it, which is a sub-task of the receiver
ReturnedNewSubTask ==
  /\ ~last.threw /\ last.id > Len(last.before)
  /\ last.id \in Range(Now.subTasks)
  /\ tasks[last.id].name = trim(last.call.name)

\* C33: getOrCreateSubTask(name, ...) returns the existing sub-task unchanged when a
\* usable sub-task of that name exists; when the existing sub-task is unusable it is
\* detached and replaced by a new sub-task of the same name that carries the old
\* one's state and attempts; otherwise a new Unstarted sub-task is added.  In every
\* case exactly one sub-task with that name exists afterwards.
C33_GetOrCreateLeavesExactlyOne ==
  GetOrCreateAsked =>
    /\ (Found # 0 /\ ~unusable(last.before, last.defsBefore, Found)) =>
         /\ ~last.threw /\ last.id = Found
         /\ tasks = last.before
    /\ (Found # 0 /\ unusable(last.before, last.defsBefore, Found)) =>
         /\ ReturnedNewSubTask
         /\ Found \notin Range(Now.subTasks)
         /\ tasks[last.id].state = last.before[Found].state
         /\ tasks[last.id].attempts = last.before[Found].attempts
    /\ Found = 0 =>
         /\ ReturnedNewSubTask
         /\ tasks[last.id].state = "Unstarted"
    /\ Cardinality(Named) = 1

----------------------------------------------------------------------------
(* Properties of the sub-tasks by name (specification SpecBuild) *)

\* the names of the sub-tasks of task t, in order
SubTaskNames(t) == TaskNames(tasks, tasks[t].subTasks)

\* C34: in every state reachable through construction, createSubTask,
\* getOrCreateSubTask, detachSubTask and updateFromPriorVersion, no two sub-tasks of
\* the same parent task have the same name, and getSubTask(name) returns exactly the
\* member of subTasks with that name (none if there is none).
C34_SiblingNamesStayUnique ==
  \A t \in TaskIds :
    /\ isDistinct(SubTaskNames(t))
    /\ \A i \in 1..Len(tasks[t].subTasks) :
         getSubTask(tasks, t, SubTaskNames(t)[i]) = tasks[t].subTasks[i]
    /\ DOMAIN tasks[t].subTasksByName = Range(SubTaskNames(t))

\* getOrCreateSubTask replaced the unusable sub-task A of Batch: two tasks named A
\* name Batch as their parent, and only the new one is a sub-task of Batch
C34_Witness ==
  /\ last.n > 0 /\ last.call.kind = "getOrCreateSubTask" /\ ~last.threw
  /\ last.t = 1 /\ last.call.name = "A" /\ last.id > Len(last.before)
  /\ tasks[2].name = "A" /\ tasks[2].parent = 1 /\ tasks[last.id].parent = 1
  /\ tasks[last.id].name = "A"
  /\ getSubTask(tasks, 1, "A") = last.id
  /\ 2 \notin Range(tasks[1].subTasks)

----------------------------------------------------------------------------
(* Properties of rejected tasks (specification SpecRejected) *)

\* the calls that C35 names
AbsorbedKinds ==
  {"start", "complete", "succeed", "timeout", "fail", "reject", "discard", "abandon",
   "discardIfOverAttempted", "reset", "incrementAttempts", "decrementAttempts"}

AbsorbedCall == Called /\ last.call.kind \in AbsorbedKinds

\* the tasks that were in a Rejected-family state before the last call
WereRejected == {u \in 1..Len(last.before) : rejected(last.before[u].state)}

\* C35: once a task's state is Rejected, Discarded or Abandoned, no start, complete,
\* succeed, timeout (with any override options), fail, reject, discard, abandon,
\* discardIfOverAttempted, reset, incrementAttempts or decrementAttempts call
\* (direct, recursive from an ancestor, or rippled from a master) changes its state.
C35_RejectedStatesAreAbsorbing ==
  AbsorbedCall =>
    \A u \in WereRejected :
      /\ tasks[u].state = last.before[u].state
      /\ tasks[u].result = last.before[u].result
      /\ tasks[u].error = last.before[u].error

\* fail(E1, recursively) on the master Batch 1 failed it and its slave Batch 5 and
\* their sub-tasks, and left the Rejected slave Batch 3 and the Discarded A of
\* Batch 3 as they were
C35_Witness ==
  /\ AbsorbedCall /\ last.call.kind = "fail" /\ last.call.rec /\ last.t = 1
  /\ ~last.threw /\ last.before[1].slaveTasks = <<3, 5>>
  /\ last.before[3].state = "Rejected" /\ last.before[4].state = "Discarded"
  /\ tasks[3].state = "Rejected" /\ tasks[4].state = "Discarded"
  /\ tasks[1].state = "Failed" /\ tasks[5].state = "Failed" /\ tasks[6].state = "Failed"

----------------------------------------------------------------------------
(* Bottom-up rejection as a property of every state (specification Spec) *)

\* every sub-task of task t is fully finalised
SubTasksFullyFinalised(t) ==
  \A i \in 1..Len(tasks[t].subTasks) : isFullyFinalised(tasks, tasks[t].subTasks[i])

\* C36: in every state reachable by any sequence of task operations (including
\* fail, timeout and reset applied recursively), a task whose state is in the
\* Rejected family has only fully finalised sub-tasks.
C36_RejectedTaskHasFinalisedSubTasks ==
  \A t \in TaskIds : rejected(tasks[t].state) => SubTasksFullyFinalised(t)

----------------------------------------------------------------------------
(* The bounds of the attempts as a property of every state (specification *)
(* SpecAttempts)                                                          *)

\* C37: in every state reachable by any sequence of start, incrementAttempts,
\* decrementAttempts, revertAttempts, timeout (with or without reverseAttempt),
\* reset, setSlaveTasks and updateFromPriorVersion, every task satisfies
\* 0 <= attempts <= totalAttempts.
C37_AttemptsWithinTotal ==
  \A t \in TaskIds :
    0 <= tasks[t].attempts /\ tasks[t].attempts <= tasks[t].totalAttempts

----------------------------------------------------------------------------
(* Properties of the attempts of a master's slaves (specification SpecMaster) *)

\* the last call was incrementAttempts(true) or decrementAttempts(true) on a master
\* task that has sub-tasks, and it returned
AttemptsRippled ==
  /\ Called /\ last.call.kind \in {"incrementAttempts", "decrementAttempts"}
  /\ last.call.rec /\ ~last.threw
  /\ isMasterTask(last.before, last.t) /\ isSuperTask(last.before, last.t)

\* the tasks of the master's tree and of each slave's tree
MasterAndSlaveTrees ==
  Range(Hierarchy(last.before, last.t))
    \cup UNION {Range(Hierarchy(last.before, Was.slaveTasks[i])) :
                  i \in 1..Len(Was.slaveTasks)}

\* the change that one call makes to the attempts
OneAttempt == IF last.call.kind = "incrementAttempts" THEN 1 ELSE -1

\* C38: a single incrementAttempts(true) (respectively decrementAttempts(true)) call
\* on a master task that has sub-tasks changes the attempts of every incomplete task
\* in the master's tree and in each slave's tree by exactly 1: no slave sub-task is
\* incremented or decremented twice.
C38_AttemptsRippleOnce ==
  AttemptsRippled =>
    \A u \in MasterAndSlaveTrees :
      incomplete(last.before[u].state) =>
        tasks[u].attempts = last.before[u].attempts + OneAttempt

----------------------------------------------------------------------------
(* What reset leaves alone (specification SpecReset) *)

\* the tasks of the tree that reset was applied to
ResetTree == Range(Hierarchy(last.before, last.t))

\* C39: reset() preserves finished work and counters: for every task in the tree it
\* is applied to, attempts, totalAttempts, began and ended are unchanged, and the
\* state and result of every sub-task (non-root task) that was Completed-family or
\* Rejected-family before the call are unchanged, so only incomplete sub-tasks are
\* retried.
C39_ResetKeepsFinishedWorkAndCounters ==
  ResetCalled =>
    \A u \in ResetTree :
      /\ tasks[u].attempts = last.before[u].attempts
      /\ tasks[u].totalAttempts = last.before[u].totalAttempts
      /\ tasks[u].began = last.before[u].began
      /\ ended(tasks, u) = ended(last.before, u)
      /\ (~isRootTask(last.before, u) /\ finalised(last.before[u].state)) =>
           /\ tasks[u].state = last.before[u].state
           /\ tasks[u].result = last.before[u].result
      /\ (~isRootTask(last.before, u) /\ tasks[u].state # last.before[u].state) =>
           ~finalised(last.before[u].state)

\* reset() on the Completed Batch, with sub-task A Failed and sub-task B Completed
\* with result R1, made Batch and A Unstarted, left B Completed with its result, and
\* left the attempts, 1 of 1, and began of every task as they were
C39_Witness ==
  /\ ResetCalled /\ last.t = 1 /\ ~last.threw
  /\ completed(Was.state) /\ failed(last.before[2].state)
  /\ last.before[3].state = "Completed" /\ last.before[3].result = "R1"
  /\ tasks[1].state = "Unstarted" /\ tasks[2].state = "Unstarted"
  /\ tasks[3].state = "Completed" /\ tasks[3].result = "R1"
  /\ \A u \in 1..3 : tasks[u].attempts = 1 /\ tasks[u].totalAttempts = 1
                     /\ IsDef(tasks[u].began)

----------------------------------------------------------------------------
(* The structure of frozen tasks (specification SpecFreeze) *)

\* the calls that change the structure of a task
StructureKinds ==
  {"createSubTask", "getOrCreateSubTask", "detachSubTask", "updateFromPriorVersion",
   "setSlaveTasks"}

\* the last call was one of them, on a task that was frozen
StructureCallOnFrozen ==
  /\ Called /\ last.call.kind \in StructureKinds
  /\ Was.frozen

\* C40: after t.freeze(), createSubTask, getOrCreateSubTask, detachSubTask,
\* updateFromPriorVersion and setSlaveTasks on t (or on any task of its subtree)
\* leave the list of sub-tasks and the list of slave tasks of every task in the
\* subtree exactly as they were at freeze time.
C40_FrozenStructureIsImmutable ==
  StructureCallOnFrozen =>
    \A u \in 1..Len(last.before) :
      last.before[u].frozen =>
        /\ tasks[u].subTasks = last.before[u].subTasks
        /\ tasks[u].slaveTasks = last.before[u].slaveTasks

====
